---- MODULE Spec2Model ----
(***************************************************************************)
(* Driver/session lifecycle of PyAutoPytest.                               *)
(*                                                                         *)
(*   Spec         thread-local DriverManager                               *)
(*                (test-automation/infra/core/driver_manager.py)           *)
(*   SpecContext  TestContext under arbitrary calls of several threads     *)
(*                (infra/core/test_context.py)                             *)
(*   SpecCounter  TestContext used by threads that each increment a        *)
(*                counter with get followed by set                         *)
(*   SpecBundle   singleton DriverManager and its DriverBundle             *)
(*                (infra/core/driver_manager.py, driver_bundle.py)         *)
(*   SpecConfig   ConfigManager of test-automation and extract_json_value  *)
(*                (test-automation/infra/core/config_manager.py,           *)
(*                test-automation/infra/helpers/api_helper.py)             *)
(*   SpecCoreConfig  singleton ConfigManager                               *)
(*                (infra/core/config_manager.py)                           *)
(*   SpecFactory  the driver factories                                     *)
(*                (test-automation/infra/core/driver_factory.py,           *)
(*                infra/core/driver_factory.py)                            *)
(*   SpecHandle   DriverBundle objects of test-automation                  *)
(*                (test-automation/infra/core/driver_bundle.py)            *)
(*   SpecAuth     AuthApi and the Authorization header of its session      *)
(*                (test-automation/projects/inspection_portal/api/         *)
(*                auth_api.py)                                             *)
(*   SpecGlobal   the module-level DriverManager: get_driver_manager,      *)
(*                reset_driver_manager and the methods of the manager      *)
(*                handed out (test-automation/infra/core/driver_manager.py)*)
(*   SpecGlobalFair  SpecGlobal with every thread inside a call going on   *)
(*   SpecWith     the thread-local DriverManager in a with statement       *)
(***************************************************************************)
EXTENDS Integers, Sequences, FiniteSets, TLC

\* ---------------------------------------------------------------- bounds
NumThreads == 2
MaxFactoryCalls == 2
MaxQuit == 1
NumCallers == 2
NumIncrementers == 3
MaxTime == 1
MaxVal == 1
MaxHandles == 3

\* ------------------------------------------------------------- constants
NoThread == 0
NoDriver == 0
\* Python's None / a missing dictionary key, among integer values: a number
\* that is no counter, no token, no time and no difference of two times
Absent == -9
NoHandle == 0

Threads == 1..NumThreads
Drivers == 1..MaxFactoryCalls

\* browser argument of start_driver; "none" is Python's None
Browsers == {"none", "opera"}
SupportedBrowsers == {"chrome", "firefox"}

\* threads of the TestContext specifications
Callers == 1..NumCallers
Incrementers == 1..NumIncrementers
CtxThreads == Callers \cup Incrementers

\* keys of TestContext._data and of TestContext._metadata
Keys == {"k"}
MetaKeys == {"test_duration"}
TestNames == {"T1", "T2"}

VARIABLES
    \* TestContext
    ctxLock,          \* TestContext._lock (threading.Lock): the holding thread, or NoThread
    data,             \* TestContext._data
    metadata,         \* TestContext._metadata
    test_name,        \* TestContext._test_name, "None" for None
    test_start_time,  \* TestContext._test_start_time, Absent for None
    cstack,           \* the TestContext method calls each thread is inside, outermost first
    cret,             \* what the last TestContext call of each thread returned, until its next call
    ipc,              \* position of each incrementing thread in its get/set program
    lastStart         \* the last step was a start_test that found data and a recorded 'test_duration'

cvars == <<ctxLock, data, metadata, test_name, test_start_time, cstack, cret, ipc,
           lastStart>>

\* native handles of the singleton DriverManager: drivers and sessions
Handles == 1..MaxHandles
Kinds == {"web", "mobile", "api"}

\* browser and platform arguments; "none" is Python's None
WebBrowsers == {"none", "safari", "opera"}
SupportedWebBrowsers == {"chrome", "firefox", "edge", "safari"}
Platforms == {"none", "ios", "windows"}
SupportedPlatforms == {"android", "ios"}

VARIABLES
    \* singleton DriverManager (infra/core)
    has_bundle,   \* DriverManager._driver_bundle is not None
    bundle,       \* DriverBundle._web_driver, _mobile_driver, _api_session, _wait
    made,         \* number of native handles constructed so far
    hkind,        \* the kind of each constructed handle
    hlive,        \* the handle is constructed and its quit()/close() was not invoked
    bop,          \* the last manager operation and how it ended
    lastQuit,     \* history of the last quit_all: handles set, closes attempted, closes that raised
    shot          \* what the last operation did, if it was take_screenshot: the driver used, how saving went

bvars == <<has_bundle, bundle, made, hkind, hlive, bop, lastQuit, shot>>

VARIABLES
    \* thread-local DriverManager
    mlock,        \* DriverManager._lock: the holding thread, or NoThread
    local,        \* DriverManager._local.driver_bundle per storage slot
    mpc,          \* position of each thread inside a manager method
    mret,         \* outcome of the last manager call of each thread, until its next call
    calls,        \* number of create_driver invocations so far
    built,        \* number of drivers create_driver has returned
    quits,        \* number of native quit() invocations per driver
    owner,        \* history: the thread whose start_driver built a driver
    foreignQuit,  \* history: some thread invoked quit() on a driver another thread built
    runFactory,   \* history: create_driver invocations of a thread since its last stop_driver
    runReturned,  \* history: drivers start_driver returned to a thread since its last stop_driver
    runRaised,    \* history: some start_driver of the thread raised since its last stop_driver
    afterStop     \* history: the thread's last start/stop call was a stop_driver

mvars == <<mlock, local, mpc, mret, calls, built, quits, owner, foreignQuit,
           runFactory, runReturned, runRaised, afterStop>>

\* ---------------------------------------------------- configuration values
MaxKeyLen == 3
MaxDepth == 2

\* a key string is a sequence of pieces: "a.a" is <<"a", ".", "a">>
Tokens == {"a", "."}
KeyStrings ==
    UNION {[1..n -> Tokens] : n \in 0..MaxKeyLen} \cup {<<"base_url">>, <<"headless">>}

\* a Python value: a scalar (named by its repr) or a dict from key strings to values
Scalar(x) == [kind |-> "scalar", s |-> x, d |-> <<>>]
Dict(f) == [kind |-> "dict", s |-> "", d |-> f]
None == Scalar("None")
Bool(b) == Scalar(IF b THEN "True" ELSE "False")

\* null, a falsy scalar, a truthy scalar
ScalarValues == {None, Scalar("0"), Scalar("v")}
InnerKeys == {<<"a">>}
TopKeys == {<<"a">>, <<"base_url">>, <<"headless">>}

\* the values nested at most n mappings deep
RECURSIVE Values(_)
Values(n) ==
    IF n = 0 THEN ScalarValues
    ELSE ScalarValues \cup
         {Dict(f) : f \in UNION {[D -> Values(n - 1)] : D \in SUBSET InnerKeys}}

\* the mappings a configuration file or a JSON body holds
RootConfigs ==
    {Dict(f) : f \in {g \in UNION {[D -> Values(MaxDepth - 1)] : D \in SUBSET TopKeys} :
                        \A k \in DOMAIN g : k # <<"a">> => g[k] = Scalar("v")}}

\* what yaml.safe_load gives for a well-formed file: a mapping, None for an
\* empty file, or a bare scalar
FileRoots == RootConfigs \cup ScalarValues
Files == {"missing", "malformed", "loaded"}
Defaults == {None, Scalar("d")}
EnvironmentNames == {"dev", "qa"}

\* os.environ as a call finds it: Unset for a variable that is not set
Unset == "<unset>"
EnvNames == {"BASE_URL", "BROWSER_HEADLESS"}
Environments ==
    {[BASE_URL |-> u, BROWSER_HEADLESS |-> h] : u \in {Unset, "", "e"}, h \in {Unset, "TRUE", "no"}}
NoEnvironment == [n \in EnvNames |-> Unset]

VARIABLES
    \* test-automation ConfigManager
    cfg_installed,  \* _config_manager is not None
    config,         \* ConfigManager._config
    cfg_env,        \* ConfigManager._env
    kres            \* the call in progress: its arguments, the environment it read, its result

kvars == <<cfg_installed, config, cfg_env, kres>>

\* the environment _load_default_config finds: BASE_URL, BROWSER, HEADLESS and
\* IMPLICIT_WAIT, the last standing for the three variables read through int()
CoreEnvironments ==
    {[BASE_URL |-> u, BROWSER |-> b, HEADLESS |-> h, IMPLICIT_WAIT |-> w] :
        u \in {Unset, "", "e"}, b \in {Unset, "firefox"},
        h \in {Unset, "TRUE"}, w \in {Unset, "x"}}
NoCoreEnvironment ==
    [BASE_URL |-> Unset, BROWSER |-> Unset, HEADLESS |-> Unset, IMPLICIT_WAIT |-> Unset]

\* the dictionaries handed to ConfigManager.update
CoreUpdates ==
    {Dict(f) : f \in UNION {[D -> {Scalar("v")}] : D \in SUBSET {<<"a">>, <<"base_url">>}}}
CoreFiles == Files \cup {"unsupported"}
CoreKeys == KeyStrings \cup {<<"browser">>}

VARIABLES
    \* infra/core ConfigManager
    core_initialized,  \* ConfigManager._instance exists and has _initialized
    core_config,       \* ConfigManager._config
    core_env,          \* history: the environment the last _load_default_config found
    core_file_keys,    \* history: the keys load_from_file has merged since then
    core_set_keys      \* history: the keys set() and update() have written since then

svars == <<core_initialized, core_config, core_env, core_file_keys, core_set_keys>>

\* ---------------------------------------------------------- driver factories
MaxBuilt == 2

\* browser and platform arguments as the caller spells them; "none" is None
BrowserArgs == {"none", "", "chrome", "Firefox", "safari", "opera", "Opera"}
PlatformArgs == {"none", "", "android", "IOS", "windows"}

\* the config argument of create_driver: None or {} ("<no config>"), a mapping
\* without 'browser' ("<no key>"), or a mapping with this browser
DriverConfigs == {"<no config>", "<no key>", "firefox", "opera"}

\* what the infra/core ConfigManager holds under 'browser' and 'mobile_platform'
ConfiguredBrowsers == {"chrome", "opera"}
ConfiguredPlatforms == {"android", "windows"}

VARIABLES
    \* driver factories
    fres,    \* the last factory call: function, arguments, outcome, error and its message
    fmade    \* number of native drivers the engines have constructed

fvars == <<fres, fmade>>

\* ------------------------------------------- DriverBundle objects on their own
NumBundles == 2
MaxNativeQuits == 2
BundleIds == 1..NumBundles

\* the driver field of a DriverBundle: a WebDriver, or None; NotMade before
\* the object is constructed
NotMade == "<not made>"
DriverFields == {"WebDriver", "None"}

VARIABLES
    \* test-automation DriverBundle objects
    tb_driver,   \* DriverBundle.driver of each object
    tb_quits,    \* number of native driver.quit() invocations per object
    tb_closed,   \* history: quit() or __exit__ of the object has returned
    tb_op        \* the last operation on an object, its outcome, whether it invoked the
                 \* native driver, and whether the object had been quit before it

hvars == <<tb_driver, tb_quits, tb_closed, tb_op>>

\* ------------------------------------------------------------------ AuthApi
NumTokens == 2

\* what a response carries under 'token': a non-empty string (1..NumTokens),
\* the empty string, or nothing (the key is missing or null: Absent)
EmptyString == 0
TokenStrings == 1..NumTokens
TokenValues == {Absent, EmptyString} \cup TokenStrings

\* the body of a response: not JSON, a JSON list, or a JSON object
Body(k, t) == [kind |-> k, token |-> t]
NoBody == Body("unread", Absent)
Bodies == {Body("invalid", Absent), Body("list", Absent)} \cup {Body("dict", t) : t \in TokenValues}

\* what self.post gives: a response with a status and a body (read only when
\* the status is 200), or no response because the request raised
Statuses == {200, 204, 401}
Response(s, b) == [status |-> s, body |-> b]
RequestFailed == Response(0, NoBody)
PostOutcomes ==
    {Response(200, b) : b \in Bodies} \cup {Response(s, NoBody) : s \in Statuses \ {200}}
    \cup {RequestFailed}

\* the same for a caller that reads the status only
UnreadOutcomes == {Response(s, NoBody) : s \in Statuses} \cup {RequestFailed}

\* the value of the session's Authorization header: f'Bearer {token}', or no header
Bearer(t) == [scheme |-> "Bearer", token |-> t]
NoHeader == [scheme |-> "none", token |-> Absent]

VARIABLES
    \* AuthApi
    token,         \* AuthApi.token
    auth_header,   \* AuthApi.session.headers['Authorization']
    ares           \* the last AuthApi call: method, response status, outcome, returned value

avars == <<token, auth_header, ares>>

\* ------------------------------------------- the module-level DriverManager
NumClients == 2
MaxCalls == 4

\* threads that call get_driver_manager, reset_driver_manager and the methods
\* of the manager they were handed
Clients == 1..NumClients
Managers == 1..MaxCalls
NoManager == 0

\* the config argument of get_driver_manager: None, or a dict naming a browser
ManagerConfigs == {"none", "firefox"}

\* what a manager stores for a thread: no driver bundle, or one
Stored == {"none", "bundle"}

VARIABLES
    \* module level of test-automation/infra/core/driver_manager.py
    g_manager,    \* _driver_manager: a DriverManager, or NoManager for None
    g_lock,       \* _manager_lock: the holding thread, or NoThread
    mgr_made,     \* number of DriverManager objects constructed
    mgr_config,   \* DriverManager.config of each object
    mgr_lock,     \* DriverManager._lock of each object
    mgr_local,    \* DriverManager._local.driver_bundle of each object, per thread
    gpc,          \* position of each thread inside a call
    g_calls,      \* number of calls made so far
    held          \* the manager get_driver_manager last returned to each thread

gvars == <<g_manager, g_lock, mgr_made, mgr_config, mgr_lock, mgr_local, gpc, g_calls, held>>

\* ------------------------------------- DriverManager in a with statement
VARIABLES
    \* "with manager:" of each thread
    wpc,        \* position of the thread with respect to its with statement
    w_driver,   \* the driver the thread has inside the block
    w_exc       \* whether the body of the block raised

wvars == <<wpc, w_driver, w_exc>>

\* the state of the configuration components, of the factories, of the
\* DriverBundle objects, of the API client and of the module-level manager
xvars == <<kvars, svars, fvars, hvars, avars, gvars, wvars>>

\* everything but the configuration components
zvars == <<mvars, cvars, bvars, fvars, hvars, avars, gvars, wvars>>

\* everything but the configuration components and the API client
zvars_auth == <<mvars, cvars, bvars, fvars, hvars, gvars, wvars>>

\* everything but the module-level manager
zvars_global == <<mvars, cvars, bvars, kvars, svars, fvars, hvars, avars, wvars>>

vars == <<mvars, cvars, bvars, xvars>>

\* ------------------------------------------------ thread-local DriverManager

\* a plain object in place of threading.local(): one slot shared by all threads
SlotShared(t) == 1

\* threading.local(): an attribute of _local resolves to the calling thread's own slot
Slot(t) == t

\* hasattr(self._local, 'driver_bundle') and self._local.driver_bundle
HasBundle(t) == local[Slot(t)] # NoDriver

\* browser = browser or self.config.get('browser', 'chrome'), config = {}
ResolveBrowser(b) == IF b = "none" THEN "chrome" ELSE b

\* threads between the call of start_driver and its create_driver step
StartsInFlight == Cardinality({u \in Threads : mpc[u] \in {"start_acq", "start_check", "start_create"}})

NoResult == [op |-> "none", kind |-> "none", val |-> NoDriver]
Result(o, k, v) == [op |-> o, kind |-> k, val |-> v]

InitManager ==
    /\ mlock = NoThread
    /\ local = [s \in Threads |-> NoDriver]
    /\ mpc = [t \in Threads |-> "idle"]
    /\ mret = [t \in Threads |-> NoResult]
    /\ calls = 0
    /\ built = 0
    /\ quits = [d \in Drivers |-> 0]
    /\ owner = [d \in Drivers |-> NoThread]
    /\ foreignQuit = FALSE
    /\ runFactory = [t \in Threads |-> 0]
    /\ runReturned = [t \in Threads |-> {}]
    /\ runRaised = [t \in Threads |-> FALSE]
    /\ afterStop = [t \in Threads |-> FALSE]

\* start_driver(browser) is called; the argument is drawn where it is read
StartDriverCall(t) ==
    /\ mpc[t] = "idle"
    /\ calls + StartsInFlight < MaxFactoryCalls \/ HasBundle(t)
    /\ mpc' = [mpc EXCEPT ![t] = "start_acq"]
    /\ mret' = [mret EXCEPT ![t] = NoResult]
    /\ afterStop' = [afterStop EXCEPT ![t] = FALSE]
    /\ UNCHANGED <<mlock, local, calls, built, quits, owner, foreignQuit,
                   runFactory, runReturned, runRaised>>

\* a thread calls start_driver(browser)
start_driver_call(t) ==
    /\ UNCHANGED <<cvars, bvars, xvars>>
    /\ StartDriverCall(t)

\* stop_driver() is called
StopDriverCall(t) ==
    /\ mpc[t] = "idle"
    /\ HasBundle(t) => quits[local[Slot(t)]] < MaxQuit
    /\ mpc' = [mpc EXCEPT ![t] = "stop_acq"]
    /\ runFactory' = [runFactory EXCEPT ![t] = 0]
    /\ runReturned' = [runReturned EXCEPT ![t] = {}]
    /\ runRaised' = [runRaised EXCEPT ![t] = FALSE]
    /\ mret' = [mret EXCEPT ![t] = NoResult]
    /\ UNCHANGED <<mlock, local, calls, built, quits, owner, foreignQuit,
                   afterStop>>

\* a thread calls stop_driver()
stop_driver_call(t) ==
    /\ UNCHANGED <<cvars, bvars, xvars>>
    /\ StopDriverCall(t)

\* "with self._lock:" on entry of start_driver and stop_driver
manager_lock_acquire(t) ==
    /\ UNCHANGED <<cvars, bvars, xvars>>
    /\ mpc[t] \in {"start_acq", "stop_acq"}
    /\ mlock = NoThread
    /\ mlock' = t
    /\ mpc' = [mpc EXCEPT ![t] = IF mpc[t] = "start_acq" THEN "start_check" ELSE "stop_body"]
    /\ UNCHANGED <<local, mret, calls, built, quits, owner, foreignQuit,
                   runFactory, runReturned, runRaised, afterStop>>

\* start_driver: the existing-bundle check; returns the stored driver and leaves the with block
start_driver_check(t) ==
    /\ UNCHANGED <<cvars, bvars, xvars>>
    /\ mpc[t] = "start_check"
    /\ IF HasBundle(t)
       THEN /\ mret' = [mret EXCEPT ![t] = Result("start_driver", "driver", local[Slot(t)])]
            /\ runReturned' = [runReturned EXCEPT ![t] = @ \cup {local[Slot(t)]}]
            /\ mlock' = NoThread
            /\ mpc' = [mpc EXCEPT ![t] = "idle"]
       ELSE /\ mpc' = [mpc EXCEPT ![t] = "start_create"]
            /\ UNCHANGED <<mret, runReturned, mlock>>
    /\ UNCHANGED <<local, calls, built, quits, owner, foreignQuit,
                   runFactory, runRaised, afterStop>>

\* start_driver left by an exception of create_driver when the lock is taken by
\* acquire() and released only on the normal path: the lock stays held
start_driver_raise_keeps_lock(t) ==
    /\ mret' = [mret EXCEPT ![t] = Result("start_driver", "raised", NoDriver)]
    /\ runRaised' = [runRaised EXCEPT ![t] = TRUE]
    /\ UNCHANGED <<mlock, local, built, owner, runReturned>>

\* start_driver left by an exception of create_driver: nothing is stored, the with block releases the lock
start_driver_raise(t) ==
    /\ mret' = [mret EXCEPT ![t] = Result("start_driver", "raised", NoDriver)]
    /\ runRaised' = [runRaised EXCEPT ![t] = TRUE]
    /\ mlock' = NoThread
    /\ UNCHANGED <<local, built, owner, runReturned>>

\* start_driver called with browser b: create_driver(...), then the DriverBundle
\* is stored and the driver returned
start_driver_create(t, b) ==
    /\ UNCHANGED <<cvars, bvars, xvars>>
    /\ mpc[t] = "start_create"
    /\ calls' = calls + 1
    /\ runFactory' = [runFactory EXCEPT ![t] = @ + 1]
    /\ mpc' = [mpc EXCEPT ![t] = "idle"]
    /\ \/ /\ ResolveBrowser(b) \in SupportedBrowsers
          /\ built' = built + 1
          /\ owner' = [owner EXCEPT ![built + 1] = t]
          /\ local' = [local EXCEPT ![Slot(t)] = built + 1]
          /\ mret' = [mret EXCEPT ![t] = Result("start_driver", "driver", built + 1)]
          /\ runReturned' = [runReturned EXCEPT ![t] = @ \cup {built + 1}]
          /\ mlock' = NoThread
          /\ UNCHANGED runRaised
       \/ \* ValueError for an unsupported browser, or the engine fails to construct
          start_driver_raise(t)
    /\ UNCHANGED <<quits, foreignQuit, afterStop>>

\* get_driver as a lazy accessor: with no driver stored it calls create_driver
\* and stores the result, as start_driver does
get_driver_constructs(t) ==
    /\ UNCHANGED <<cvars, bvars, xvars>>
    /\ mpc[t] = "idle"
    /\ IF HasBundle(t) \/ built >= MaxFactoryCalls
       THEN /\ mret' = [mret EXCEPT ![t] =
                          IF HasBundle(t) THEN Result("get_driver", "driver", local[Slot(t)])
                                          ELSE Result("get_driver", "none", NoDriver)]
            /\ UNCHANGED <<local, calls, built, owner>>
       ELSE /\ calls' = calls + 1
            /\ built' = built + 1
            /\ owner' = [owner EXCEPT ![built + 1] = t]
            /\ local' = [local EXCEPT ![Slot(t)] = built + 1]
            /\ mret' = [mret EXCEPT ![t] = Result("get_driver", "driver", built + 1)]
    /\ UNCHANGED <<mlock, mpc, quits, foreignQuit,
                   runFactory, runReturned, runRaised, afterStop>>

\* get_driver: no lock; the calling thread's stored driver or None
get_driver(t) ==
    /\ UNCHANGED <<cvars, bvars, xvars>>
    /\ mpc[t] = "idle"
    /\ mret' = [mret EXCEPT ![t] =
                  IF HasBundle(t) THEN Result("get_driver", "driver", local[Slot(t)])
                                  ELSE Result("get_driver", "none", NoDriver)]
    /\ UNCHANGED <<mlock, local, mpc, calls, built, quits, owner, foreignQuit,
                   runFactory, runReturned, runRaised, afterStop>>

\* stop_driver body: driver_bundle.quit() then driver_bundle = None, inside the with block
stop_driver_body(t) ==
    /\ UNCHANGED <<cvars, bvars, xvars>>
    /\ mpc[t] = "stop_body"
    /\ mpc' = [mpc EXCEPT ![t] = "idle"]
    /\ mlock' = NoThread
    /\ afterStop' = [afterStop EXCEPT ![t] = TRUE]
    /\ IF HasBundle(t)
       THEN /\ quits' = [quits EXCEPT ![local[Slot(t)]] = @ + 1]
            /\ foreignQuit' = (foreignQuit \/ owner[local[Slot(t)]] # t)
            /\ \/ \* the native quit() returns
                  /\ local' = [local EXCEPT ![Slot(t)] = NoDriver]
                  /\ mret' = [mret EXCEPT ![t] = Result("stop_driver", "none", NoDriver)]
               \/ \* the native quit() raises: the assignment of None is skipped
                  /\ mret' = [mret EXCEPT ![t] = Result("stop_driver", "raised", local[Slot(t)])]
                  /\ UNCHANGED local
       ELSE /\ mret' = [mret EXCEPT ![t] = Result("stop_driver", "none", NoDriver)]
            /\ UNCHANGED <<local, quits, foreignQuit>>
    /\ UNCHANGED <<calls, built, owner, runFactory, runReturned, runRaised>>

NextManager ==
    \E t \in Threads :
        \/ start_driver_call(t)
        \/ stop_driver_call(t)
        \/ manager_lock_acquire(t)
        \/ start_driver_check(t)
        \/ \E b \in Browsers : start_driver_create(t, b)
        \/ get_driver(t)
        \/ stop_driver_body(t)

\* ------------------------------------------------------------ TestContext

Frame(o, k, v) == [op |-> o, pc |-> "acq", key |-> k, val |-> v]

\* the calls a thread can make: method, key argument, value or default argument
CtxCalls ==
    {Frame("set", k, v) : k \in Keys, v \in 0..MaxVal}
    \cup {Frame("get", k, Absent) : k \in Keys}
    \cup {Frame("remove", k, Absent) : k \in Keys}
    \cup {Frame("clear", "", Absent)}
    \cup {Frame("set_metadata", k, v) : k \in MetaKeys, v \in 0..MaxVal}
    \cup {Frame("get_metadata", k, Absent) : k \in MetaKeys}
    \cup {Frame("start_test", n, Absent) : n \in TestNames}
    \cup {Frame("end_test", "", Absent)}
    \cup {Frame("get_test_duration", "", Absent)}
    \cup {Frame("update", "", Absent)}

\* the dictionary argument of update: for each key its value, or Absent for a
\* key the argument does not hold
UpdateArgs == [Keys -> (0..MaxVal) \cup {Absent}]

Top(t) == cstack[t][Len(cstack[t])]
At(t, o, p) == cstack[t] # <<>> /\ Top(t).op = o /\ Top(t).pc = p
WithTopAt(stack, p) == [stack EXCEPT ![Len(stack)].pc = p]

InitContext ==
    /\ ctxLock = NoThread
    /\ data = [k \in Keys |-> Absent]
    /\ metadata = [k \in MetaKeys |-> Absent]
    /\ test_name = "None"
    /\ test_start_time = Absent
    /\ cstack = [t \in CtxThreads |-> <<>>]
    /\ cret = [t \in CtxThreads |-> Absent]
    /\ ipc = [t \in CtxThreads |-> "start"]
    /\ lastStart = FALSE

\* datetime.now() is the naive local wall clock: a reading is later than the
\* one before, or earlier (end of summer time, a correction of the clock)
ClockReadings == 0..MaxTime

\* a thread outside the context calls one of its methods; every method starts by
\* waiting for the lock, and which method it is, with which arguments, is drawn
\* when the lock is obtained
ctx_call(t) ==
    /\ UNCHANGED <<mvars, bvars, xvars>>
    /\ lastStart' = FALSE
    /\ cstack[t] = <<>>
    /\ cstack' = [cstack EXCEPT ![t] = <<Frame("any", "", Absent)>>]
    /\ cret' = [cret EXCEPT ![t] = Absent]
    /\ UNCHANGED <<ctxLock, data, metadata, test_name, test_start_time, ipc>>

\* "with self._lock:" on entry of a method; threading.Lock is not reentrant
ctx_lock_acquire(t) ==
    /\ UNCHANGED <<mvars, bvars, xvars>>
    /\ lastStart' = FALSE
    /\ cstack[t] # <<>>
    /\ Top(t).pc = "acq"
    /\ ctxLock = NoThread
    /\ ctxLock' = t
    /\ IF Top(t).op = "any"
       THEN \E f \in CtxCalls : cstack' = [cstack EXCEPT ![t] = <<[f EXCEPT !.pc = "body"]>>]
       ELSE cstack' = [cstack EXCEPT ![t] = WithTopAt(@, "body")]
    /\ UNCHANGED <<data, metadata, test_name, test_start_time, cret, ipc>>

\* the innermost call returns v: its with block releases the lock
ctx_return(t, v) ==
    /\ cstack' = [cstack EXCEPT ![t] = SubSeq(@, 1, Len(@) - 1)]
    /\ cret' = [cret EXCEPT ![t] = v]
    /\ ctxLock' = NoThread

\* the innermost call calls another method of the context and resumes at p
ctx_nested_call(t, p, f) ==
    /\ cstack' = [cstack EXCEPT ![t] = Append(WithTopAt(@, p), f)]
    /\ UNCHANGED <<cret, ctxLock>>

\* set: self._data[key] = value
set_body(t) ==
    /\ UNCHANGED <<mvars, bvars, xvars>>
    /\ lastStart' = FALSE
    /\ At(t, "set", "body")
    /\ data' = [data EXCEPT ![Top(t).key] = Top(t).val]
    /\ ctx_return(t, Absent)
    /\ UNCHANGED <<metadata, test_name, test_start_time, ipc>>

\* update(d): self._data.update(d), every key of d written in the one locked
\* block; the argument is drawn where it is read
update_body(t, d) ==
    /\ UNCHANGED <<mvars, bvars, xvars>>
    /\ lastStart' = FALSE
    /\ At(t, "update", "body")
    /\ data' = [k \in Keys |-> IF d[k] = Absent THEN data[k] ELSE d[k]]
    /\ ctx_return(t, Absent)
    /\ UNCHANGED <<metadata, test_name, test_start_time, ipc>>

\* get: return self._data.get(key, default)
get_body(t) ==
    /\ UNCHANGED <<mvars, bvars, xvars>>
    /\ lastStart' = FALSE
    /\ At(t, "get", "body")
    /\ ctx_return(t, IF data[Top(t).key] = Absent THEN Top(t).val ELSE data[Top(t).key])
    /\ UNCHANGED <<data, metadata, test_name, test_start_time, ipc>>

\* remove: if key in self._data: del self._data[key]
remove_body(t) ==
    /\ UNCHANGED <<mvars, bvars, xvars>>
    /\ lastStart' = FALSE
    /\ At(t, "remove", "body")
    /\ data' = [data EXCEPT ![Top(t).key] = Absent]
    /\ ctx_return(t, Absent)
    /\ UNCHANGED <<metadata, test_name, test_start_time, ipc>>

\* clear: both dictionaries, the start time and the name
clear_body(t) ==
    /\ UNCHANGED <<mvars, bvars, xvars>>
    /\ lastStart' = FALSE
    /\ At(t, "clear", "body")
    /\ data' = [k \in Keys |-> Absent]
    /\ metadata' = [k \in MetaKeys |-> Absent]
    /\ test_start_time' = Absent
    /\ test_name' = "None"
    /\ ctx_return(t, Absent)
    /\ UNCHANGED ipc

\* set_metadata: self._metadata[key] = value
set_metadata_body(t) ==
    /\ UNCHANGED <<mvars, bvars, xvars>>
    /\ lastStart' = FALSE
    /\ At(t, "set_metadata", "body")
    /\ metadata' = [metadata EXCEPT ![Top(t).key] = Top(t).val]
    /\ ctx_return(t, Absent)
    /\ UNCHANGED <<data, test_name, test_start_time, ipc>>

\* get_metadata: return self._metadata.get(key, default)
get_metadata_body(t) ==
    /\ UNCHANGED <<mvars, bvars, xvars>>
    /\ lastStart' = FALSE
    /\ At(t, "get_metadata", "body")
    /\ ctx_return(t, IF metadata[Top(t).key] = Absent THEN Top(t).val ELSE metadata[Top(t).key])
    /\ UNCHANGED <<data, metadata, test_name, test_start_time, ipc>>

\* start_test that resets the context the way clear() does: the metadata goes too
start_test_body_clears_metadata(t) ==
    /\ UNCHANGED <<mvars, bvars, xvars>>
    /\ At(t, "start_test", "body")
    /\ lastStart' = (metadata["test_duration"] # Absent /\ \E k \in Keys : data[k] # Absent)
    /\ test_name' = Top(t).key
    /\ test_start_time' \in ClockReadings
    /\ data' = [k \in Keys |-> Absent]
    /\ metadata' = [k \in MetaKeys |-> Absent]
    /\ ctx_return(t, Absent)
    /\ UNCHANGED ipc

\* start_test: name, start time, self._data.clear()
start_test_body(t) ==
    /\ UNCHANGED <<mvars, bvars, xvars>>
    /\ At(t, "start_test", "body")
    /\ lastStart' = (metadata["test_duration"] # Absent /\ \E k \in Keys : data[k] # Absent)
    /\ test_name' = Top(t).key
    /\ test_start_time' \in ClockReadings
    /\ data' = [k \in Keys |-> Absent]
    /\ ctx_return(t, Absent)
    /\ UNCHANGED <<metadata, ipc>>

\* end_test, first statement: if a start time is set, the duration is computed
\* and self.set_metadata('test_duration', duration) is called with the lock held
end_test_body(t) ==
    /\ UNCHANGED <<mvars, bvars, xvars>>
    /\ lastStart' = FALSE
    /\ At(t, "end_test", "body")
    /\ IF test_start_time # Absent
       THEN \E n \in ClockReadings :
                ctx_nested_call(t, "tail",
                                   Frame("set_metadata", "test_duration", n - test_start_time))
       ELSE /\ cstack' = [cstack EXCEPT ![t] = WithTopAt(@, "tail")]
            /\ UNCHANGED <<cret, ctxLock>>
    /\ UNCHANGED <<data, metadata, test_name, test_start_time, ipc>>

\* end_test, last statements: name and start time are reset
end_test_tail(t) ==
    /\ UNCHANGED <<mvars, bvars, xvars>>
    /\ lastStart' = FALSE
    /\ At(t, "end_test", "tail")
    /\ test_name' = "None"
    /\ test_start_time' = Absent
    /\ ctx_return(t, Absent)
    /\ UNCHANGED <<data, metadata, ipc>>

\* get_test_duration: the live elapsed time of a running test, else
\* return self.get_metadata('test_duration'), called with the lock held
get_test_duration_body(t) ==
    /\ UNCHANGED <<mvars, bvars, xvars>>
    /\ lastStart' = FALSE
    /\ cstack[t] # <<>>
    /\ Top(t).op = "get_test_duration"
    /\ Top(t).pc \in {"body", "ret"}
    /\ IF Top(t).pc = "ret"
       THEN ctx_return(t, cret[t])
       ELSE IF test_start_time # Absent
            THEN \E n \in ClockReadings : ctx_return(t, n - test_start_time)
            ELSE ctx_nested_call(t, "ret", Frame("get_metadata", "test_duration", Absent))
    /\ UNCHANGED <<data, metadata, test_name, test_start_time, ipc>>

\* an incrementing thread reads the counter: get("k", 0)
increment_get(t) ==
    /\ UNCHANGED <<mvars, bvars, xvars>>
    /\ lastStart' = FALSE
    /\ ipc[t] = "start"
    /\ cstack[t] = <<>>
    /\ cstack' = [cstack EXCEPT ![t] = <<Frame("get", "k", 0)>>]
    /\ ipc' = [ipc EXCEPT ![t] = "got"]
    /\ cret' = [cret EXCEPT ![t] = Absent]
    /\ UNCHANGED <<ctxLock, data, metadata, test_name, test_start_time>>

\* and writes back what it read plus one: set("k", value + 1)
increment_set(t) ==
    /\ UNCHANGED <<mvars, bvars, xvars>>
    /\ lastStart' = FALSE
    /\ ipc[t] = "got"
    /\ cstack[t] = <<>>
    /\ cstack' = [cstack EXCEPT ![t] = <<Frame("set", "k", cret[t] + 1)>>]
    /\ ipc' = [ipc EXCEPT ![t] = "set"]
    /\ cret' = [cret EXCEPT ![t] = Absent]
    /\ UNCHANGED <<ctxLock, data, metadata, test_name, test_start_time>>

NextContext ==
    \E t \in Callers :
        \/ ctx_call(t)
        \/ ctx_lock_acquire(t)
        \/ set_body(t)
        \/ get_body(t)
        \/ \E d \in UpdateArgs : update_body(t, d)
        \/ remove_body(t)
        \/ clear_body(t)
        \/ set_metadata_body(t)
        \/ get_metadata_body(t)
        \/ start_test_body(t)
        \/ end_test_body(t)
        \/ end_test_tail(t)
        \/ get_test_duration_body(t)

NextCounter ==
    \E t \in Incrementers :
        \/ increment_get(t)
        \/ increment_set(t)
        \/ ctx_lock_acquire(t)
        \/ get_body(t)
        \/ set_body(t)

\* ------------------------------------------- singleton DriverManager, DriverBundle

EmptyBundle == [web |-> NoHandle, mobile |-> NoHandle, api |-> NoHandle, wait |-> NoHandle]
NoQuit == [pre |-> {}, attempted |-> {}, failed |-> {}, raised |-> FALSE]

NoShot == [used |-> "none", saving |-> "none"]

\* how the directory creation and the engine's save_screenshot(path) go: mkdir
\* raises, save_screenshot raises, save_screenshot returns False because the
\* file could not be written, or the image is saved
Savings == {"mkdir raises", "save raises", "save returns False", "saved"}

InitBundle ==
    /\ shot = NoShot
    /\ has_bundle = FALSE
    /\ bundle = EmptyBundle
    /\ made = 0
    /\ hkind = [h \in Handles |-> "none"]
    /\ hlive = [h \in Handles |-> FALSE]
    /\ bop = [op |-> "none", outcome |-> "ok"]
    /\ lastQuit = NoQuit

\* DriverFactory.create_web_driver: browser or config 'browser' (default 'chrome')
ResolveWebBrowser(b) == IF b = "none" THEN "chrome" ELSE b

\* DriverFactory.create_mobile_driver: platform or config 'mobile_platform' (default 'android')
ResolvePlatform(p) == IF p = "none" THEN "android" ELSE p

\* DriverBundle.set_web_driver
set_web_driver(b, driver) ==
    [b EXCEPT !.web = driver, !.wait = IF driver # NoHandle THEN driver ELSE @]

\* DriverBundle.set_web_driver when WebDriverWait(driver, wait_timeout) raises
\* (float(timeout) of an 'explicit_wait' that is no number): the slot is
\* assigned already, _wait stays as it was
set_web_driver_wait_raises(b, driver) == [b EXCEPT !.web = driver]

\* DriverBundle.set_api_session
set_api_session(b, session) == [b EXCEPT !.api = session]

\* DriverBundle.set_mobile_driver
set_mobile_driver(b, driver) ==
    [b EXCEPT !.mobile = driver, !.wait = IF driver # NoHandle THEN driver ELSE @]

\* DriverBundle.set_mobile_driver when WebDriverWait(driver, wait_timeout) raises
set_mobile_driver_wait_raises(b, driver) == [b EXCEPT !.mobile = driver]

\* quit_all without the try/except around each close: the first close that
\* raises ends the method, the slots from there on stay as they are
QuitAllNoCatch(b, fails) ==
    LET webFails == b.web # NoHandle /\ b.web \in fails
        mobileRuns == ~webFails
        mobileFails == mobileRuns /\ b.mobile # NoHandle /\ b.mobile \in fails
        apiRuns == mobileRuns /\ ~mobileFails
        apiFails == apiRuns /\ b.api # NoHandle /\ b.api \in fails
    IN  [bundle |-> [web |-> IF webFails THEN b.web ELSE NoHandle,
                     wait |-> IF b.web # NoHandle /\ ~webFails THEN NoHandle ELSE b.wait,
                     mobile |-> IF mobileRuns /\ ~mobileFails THEN NoHandle ELSE b.mobile,
                     api |-> IF apiRuns /\ ~apiFails THEN NoHandle ELSE b.api],
         attempted |-> ({b.web} \cup (IF mobileRuns THEN {b.mobile} ELSE {})
                                \cup (IF apiRuns THEN {b.api} ELSE {})) \ {NoHandle},
         raised |-> webFails \/ mobileFails \/ apiFails]

\* DriverBundle.quit_all: each slot that is set is closed inside try/except
\* and cleared; fails are the handles whose quit()/close() raises
QuitAll(b, fails) ==
    LET afterWeb == IF b.web # NoHandle
                    THEN [b EXCEPT !.web = NoHandle, !.wait = NoHandle]
                    ELSE b
        afterMobile == IF afterWeb.mobile # NoHandle
                       THEN [afterWeb EXCEPT !.mobile = NoHandle]
                       ELSE afterWeb
        afterApi == IF afterMobile.api # NoHandle
                    THEN [afterMobile EXCEPT !.api = NoHandle]
                    ELSE afterMobile
    IN  [bundle |-> afterApi,
         attempted |-> {b.web, b.mobile, b.api} \ {NoHandle},
         raised |-> FALSE]

SlotHandles(b) == {b.web, b.mobile, b.api} \ {NoHandle}

\* a factory method has constructed the native handle of kind k and the call
\* raises after that: the handle exists and is live
FactoryConfigureRaises(k) ==
    /\ made' = made + 1
    /\ hkind' = [hkind EXCEPT ![made + 1] = k]
    /\ hlive' = [hlive EXCEPT ![made + 1] = TRUE]

\* DriverManager.get_driver_bundle: creates the bundle if there is none
get_driver_bundle ==
    /\ UNCHANGED <<mvars, cvars, xvars>>
    /\ shot' = NoShot
    /\ has_bundle' = TRUE
    /\ bop' = [op |-> "get_driver_bundle", outcome |-> "ok"]
    /\ UNCHANGED <<bundle, made, hkind, hlive, lastQuit>>

\* DriverManager.create_web_driver(browser)
create_web_driver(browser) ==
    /\ UNCHANGED <<mvars, cvars, xvars>>
    /\ shot' = NoShot
    /\ made < MaxHandles
    /\ has_bundle' = TRUE
    /\ \/ /\ ResolveWebBrowser(browser) \in SupportedWebBrowsers
          /\ made' = made + 1
          /\ hkind' = [hkind EXCEPT ![made + 1] = "web"]
          /\ hlive' = [hlive EXCEPT ![made + 1] = TRUE]
          /\ bundle' = set_web_driver(bundle, made + 1)
          /\ bop' = [op |-> "create_web_driver", outcome |-> "ok"]
       \/ \* ValueError for an unsupported browser, or the engine fails to construct
          /\ bop' = [op |-> "create_web_driver", outcome |-> "raised"]
          /\ UNCHANGED <<bundle, made, hkind, hlive>>
       \/ \* the driver is constructed and _configure_driver raises: the call
          \* raises with the driver live and in no slot
          /\ ResolveWebBrowser(browser) \in SupportedWebBrowsers
          /\ FactoryConfigureRaises("web")
          /\ bop' = [op |-> "create_web_driver", outcome |-> "raised"]
          /\ UNCHANGED bundle
       \/ \* the driver is constructed and configured, set_web_driver stores it
          \* and WebDriverWait raises: the call raises with the driver in its
          \* slot and the earlier wait
          /\ ResolveWebBrowser(browser) \in SupportedWebBrowsers
          /\ FactoryConfigureRaises("web")
          /\ bundle' = set_web_driver_wait_raises(bundle, made + 1)
          /\ bop' = [op |-> "create_web_driver", outcome |-> "raised"]
    /\ UNCHANGED lastQuit

\* DriverManager.create_api_session(base_url)
create_api_session ==
    /\ UNCHANGED <<mvars, cvars, xvars>>
    /\ shot' = NoShot
    /\ made < MaxHandles
    /\ has_bundle' = TRUE
    /\ \/ /\ made' = made + 1
          /\ hkind' = [hkind EXCEPT ![made + 1] = "api"]
          /\ hlive' = [hlive EXCEPT ![made + 1] = TRUE]
          /\ bundle' = set_api_session(bundle, made + 1)
          /\ bop' = [op |-> "create_api_session", outcome |-> "ok"]
       \/ \* requests.Session() is constructed and its configuration raises
          \* (headers that are no mapping): the call raises with the session
          \* open and in no slot
          /\ FactoryConfigureRaises("api")
          /\ bop' = [op |-> "create_api_session", outcome |-> "raised"]
          /\ UNCHANGED bundle
    /\ UNCHANGED lastQuit

\* DriverManager.create_mobile_driver(platform)
create_mobile_driver(platform) ==
    /\ UNCHANGED <<mvars, cvars, xvars>>
    /\ shot' = NoShot
    /\ made < MaxHandles
    /\ has_bundle' = TRUE
    /\ \/ /\ ResolvePlatform(platform) \in SupportedPlatforms
          /\ made' = made + 1
          /\ hkind' = [hkind EXCEPT ![made + 1] = "mobile"]
          /\ hlive' = [hlive EXCEPT ![made + 1] = TRUE]
          /\ bundle' = set_mobile_driver(bundle, made + 1)
          /\ bop' = [op |-> "create_mobile_driver", outcome |-> "ok"]
       \/ \* ValueError for an unsupported platform, or the engine fails to construct
          /\ bop' = [op |-> "create_mobile_driver", outcome |-> "raised"]
          /\ UNCHANGED <<bundle, made, hkind, hlive>>
       \/ \* the driver is constructed and implicitly_wait raises: the call
          \* raises with the driver live and in no slot
          /\ ResolvePlatform(platform) \in SupportedPlatforms
          /\ FactoryConfigureRaises("mobile")
          /\ bop' = [op |-> "create_mobile_driver", outcome |-> "raised"]
          /\ UNCHANGED bundle
       \/ \* the driver is constructed and configured, set_mobile_driver stores
          \* it and WebDriverWait raises: the call raises with the driver in its
          \* slot and the earlier wait
          /\ ResolvePlatform(platform) \in SupportedPlatforms
          /\ FactoryConfigureRaises("mobile")
          /\ bundle' = set_mobile_driver_wait_raises(bundle, made + 1)
          /\ bop' = [op |-> "create_mobile_driver", outcome |-> "raised"]
    /\ UNCHANGED lastQuit

\* the effect of "if self._driver_bundle: self._driver_bundle.quit_all()" when
\* the closes of the handles in fails raise; o is the calling operation
QuitDriversEffect(o, fails, keep) ==
    IF has_bundle
    THEN LET q == QuitAll(bundle, fails)
         IN  /\ bundle' = IF keep \/ q.raised THEN q.bundle ELSE EmptyBundle
             /\ has_bundle' = (keep \/ q.raised)
             /\ hlive' = [h \in Handles |-> hlive[h] /\ h \notin q.attempted]
             /\ lastQuit' = [pre |-> SlotHandles(bundle), attempted |-> q.attempted,
                             failed |-> fails \cap SlotHandles(bundle), raised |-> q.raised]
             /\ bop' = [op |-> o, outcome |-> IF q.raised THEN "raised" ELSE "ok"]
    ELSE /\ bop' = [op |-> o, outcome |-> "ok"]
         /\ UNCHANGED <<bundle, has_bundle, hlive, lastQuit>>

\* DriverManager.quit_drivers
quit_drivers ==
    /\ UNCHANGED <<mvars, cvars, xvars>>
    /\ shot' = NoShot
    /\ \E fails \in SUBSET SlotHandles(bundle) : QuitDriversEffect("quit_drivers", fails, TRUE)
    /\ UNCHANGED <<made, hkind>>

\* DriverManager.reset: quit_drivers(), then self._driver_bundle = None
reset ==
    /\ UNCHANGED <<mvars, cvars, xvars>>
    /\ shot' = NoShot
    /\ \E fails \in SUBSET SlotHandles(bundle) : QuitDriversEffect("reset", fails, FALSE)
    /\ UNCHANGED <<made, hkind>>

\* take_screenshot: the driver it picks, web before mobile
ScreenshotDriver(has, b) ==
    IF has /\ b.web # NoHandle THEN "web"
    ELSE IF has /\ b.mobile # NoHandle THEN "mobile"
    ELSE "none"

\* DriverManager.take_screenshot(name): None without a driver and when the
\* try block raises, else str(filepath); the result of save_screenshot is not read
take_screenshot(saving) ==
    /\ UNCHANGED <<mvars, cvars, xvars>>
    /\ LET used == ScreenshotDriver(has_bundle, bundle)
       IN  IF used = "none"
           THEN /\ shot' = NoShot
                /\ bop' = [op |-> "take_screenshot", outcome |-> "None"]
           ELSE /\ shot' = [used |-> used, saving |-> saving]
                /\ bop' = [op |-> "take_screenshot",
                           outcome |-> IF saving \in {"mkdir raises", "save raises"}
                                       THEN "None" ELSE "path"]
    /\ UNCHANGED <<has_bundle, bundle, made, hkind, hlive, lastQuit>>

NextBundle ==
    \/ \E saving \in Savings : take_screenshot(saving)
    \/ get_driver_bundle
    \/ \E b \in WebBrowsers : create_web_driver(b)
    \/ create_api_session
    \/ \E p \in Platforms : create_mobile_driver(p)
    \/ quit_drivers
    \/ reset

\* ------------------------------------------ test-automation ConfigManager

\* str.split('.'): the segments between the dots, at least one
RECURSIVE Split(_)
Split(key) ==
    IF key = <<>> THEN << <<>> >>
    ELSE LET rest == Split(Tail(key))
         IN  IF Head(key) = "." THEN << <<>> >> \o rest
             ELSE << <<Head(key)>> \o Head(rest) >> \o Tail(rest)

\* str.lower() on the strings of the model
Lower(x) ==
    CASE x = "TRUE" -> "true"
      [] x = "Firefox" -> "firefox"
      [] x = "Opera" -> "opera"
      [] x = "IOS" -> "ios"
      [] OTHER -> x

\* truth value of os.getenv(name): None and '' are falsy
EnvSet(env, name) == env[name] \notin {Unset, ""}

\* truth value of a loaded value, as "yaml.safe_load(f) or {}" tests it
Truthy(v) == v \notin {None, Scalar("0"), Dict(<<>>)}

\* dict.get(k): None for a missing key
DictGet(value, k) == IF k \in DOMAIN value.d THEN value.d[k] ELSE None

\* d[k] = v on a copy of the mapping
DictSet(value, k, v) ==
    Dict([x \in DOMAIN value.d \cup {k} |-> IF x = k THEN v ELSE value.d[x]])

Returned(v) == [outcome |-> "ok", val |-> v]
Raised == [outcome |-> "raised", val |-> None]

\* the walk without the isinstance test: .get on a value that is not a mapping
\* raises AttributeError
RECURSIVE WalkKeysUnchecked(_, _, _)
WalkKeysUnchecked(value, keys, default) ==
    IF keys = <<>> THEN Returned(value)
    ELSE IF value.kind = "dict"
         THEN IF DictGet(value, Head(keys)) = None
              THEN Returned(default)
              ELSE WalkKeysUnchecked(DictGet(value, Head(keys)), Tail(keys), default)
         ELSE Raised

\* "for k in keys:" of get and of extract_json_value: value.get(k) on a
\* mapping, default as soon as that is None or the value is not a mapping
RECURSIVE WalkKeys(_, _, _)
WalkKeys(value, keys, default) ==
    IF keys = <<>> THEN Returned(value)
    ELSE IF value.kind = "dict"
         THEN IF DictGet(value, Head(keys)) = None
              THEN Returned(default)
              ELSE WalkKeys(DictGet(value, Head(keys)), Tail(keys), default)
         ELSE Returned(default)

\* get that resolves the key in the loaded file first and consults the
\* environment only when the file has no value
GetFileFirst(env, cfg, key, default) ==
    LET r == WalkKeys(cfg, Split(key), None)
    IN  IF r.val # None THEN r
        ELSE IF key = <<"headless">> /\ EnvSet(env, "BROWSER_HEADLESS")
        THEN Returned(Bool(Lower(env["BROWSER_HEADLESS"]) \in {"true", "1", "yes"}))
        ELSE IF key = <<"base_url">> /\ EnvSet(env, "BASE_URL")
        THEN Returned(Scalar(env["BASE_URL"]))
        ELSE Returned(default)

\* ConfigManager.get(key, default)
Get(env, cfg, key, default) ==
    IF key = <<"headless">> /\ EnvSet(env, "BROWSER_HEADLESS")
    THEN Returned(Bool(Lower(env["BROWSER_HEADLESS"]) \in {"true", "1", "yes"}))
    ELSE IF key = <<"base_url">> /\ EnvSet(env, "BASE_URL")
    THEN Returned(Scalar(env["BASE_URL"]))
    ELSE WalkKeys(cfg, Split(key), default)

\* extract_json_value(json_data, key_path, default)
ExtractJsonValue(json_data, key_path, default) ==
    WalkKeys(json_data, Split(key_path), default)

NoCall == [op |-> "none", outcome |-> "ok", key |-> <<>>, default |-> None,
           env |-> NoEnvironment, data |-> None, val |-> None, file |-> "none"]
Call(o, out, k, dflt, e, dat, v, f) ==
    [op |-> o, outcome |-> out, key |-> k, default |-> dflt, env |-> e,
     data |-> dat, val |-> v, file |-> f]

InitConfig ==
    /\ cfg_installed = FALSE
    /\ config = Dict(<<>>)
    /\ cfg_env = "dev"
    /\ kres = NoCall

\* the caller has the result of its call and goes on to the next call
config_call_return ==
    /\ UNCHANGED <<zvars, svars>>
    /\ kres # NoCall
    /\ kres' = NoCall
    /\ UNCHANGED <<cfg_installed, config, cfg_env>>

\* load_env that answers a missing or malformed file with an empty configuration
LoadEnvFallback(cfg, cur, env, file, root) ==
    IF file \in {"missing", "malformed"}
    THEN [outcome |-> "ok", config |-> Dict(<<>>), env |-> env]
    ELSE [outcome |-> "ok", config |-> IF Truthy(root) THEN root ELSE Dict(<<>>), env |-> env]

\* ConfigManager.load_env(env) on a manager holding cfg for environment cur:
\* the file of env is missing, malformed, or loads as root
LoadEnv(cfg, cur, env, file, root) ==
    IF file \in {"missing", "malformed"}
    THEN [outcome |-> "raised", config |-> cfg, env |-> cur]
    ELSE [outcome |-> "ok", config |-> IF Truthy(root) THEN root ELSE Dict(<<>>), env |-> env]

\* get_config(): the global manager, constructed on first use with
\* env = os.getenv('ENV', 'dev'); the assignment is skipped when __init__ raises
get_config(env, file, root) ==
    /\ UNCHANGED <<zvars, svars>>
    /\ kres = NoCall
    /\ IF cfg_installed
       THEN /\ kres' = Call("get_config", "ok", <<>>, None, NoEnvironment, None, None, "none")
            /\ UNCHANGED <<cfg_installed, config, cfg_env>>
       ELSE LET r == LoadEnv(Dict(<<>>), env, env, file, root)
            IN  /\ kres' = Call("get_config", r.outcome, <<>>, None, NoEnvironment, None, None, file)
                /\ cfg_installed' = (r.outcome = "ok")
                /\ config' = IF r.outcome = "ok" THEN r.config ELSE config
                /\ cfg_env' = IF r.outcome = "ok" THEN r.env ELSE cfg_env

\* reset_config()
reset_config ==
    /\ UNCHANGED <<zvars, svars>>
    /\ kres = NoCall
    /\ cfg_installed' = FALSE
    /\ config' = Dict(<<>>)
    /\ cfg_env' = "dev"
    /\ kres' = Call("reset_config", "ok", <<>>, None, NoEnvironment, None, None, "none")

\* get_config().load_env(env)
load_env(env, file, root) ==
    /\ UNCHANGED <<zvars, svars>>
    /\ kres = NoCall
    /\ cfg_installed
    /\ LET r == LoadEnv(config, cfg_env, env, file, root)
       IN  /\ config' = r.config
           /\ cfg_env' = r.env
           /\ kres' = Call("load_env", r.outcome, <<>>, None, NoEnvironment, None, None, file)
    /\ UNCHANGED cfg_installed

\* get_config().get(key, default), called with the process environment env
get(key, default, env) ==
    /\ UNCHANGED <<zvars, svars>>
    /\ kres = NoCall
    /\ cfg_installed
    /\ LET r == Get(env, config, key, default)
       IN  kres' = Call("get", r.outcome, key, default, env, config, r.val, "none")
    /\ UNCHANGED <<cfg_installed, config, cfg_env>>

\* extract_json_value(json_data, key_path, default)
extract_json_value(json_data, key_path, default) ==
    /\ UNCHANGED <<zvars, svars>>
    /\ kres = NoCall
    /\ LET r == ExtractJsonValue(json_data, key_path, default)
       IN  kres' = Call("extract_json_value", r.outcome, key_path, default, NoEnvironment,
                        json_data, r.val, "none")
    /\ UNCHANGED <<cfg_installed, config, cfg_env>>

\* dict.copy(): a new mapping whose values are the very objects of the
\* original; shared names the keys whose value is a mapping object both hold
ShallowCopy(cfg) == [top |-> cfg, shared |-> {k \in DOMAIN cfg.d : cfg.d[k].kind = "dict"}]

\* c = get_config().config; c[k] = v: the caller writes a key of the returned
\* mapping. When load_env has loaded a file whose root is a truthy scalar,
\* self._config.copy() raises AttributeError
config_set_item(k, v) ==
    /\ UNCHANGED <<zvars, svars>>
    /\ kres = NoCall
    /\ cfg_installed
    /\ kres' = IF config.kind = "dict"
               THEN Call("config_set_item", "ok", k, None, NoEnvironment,
                         DictSet(ShallowCopy(config).top, k, v), None, "none")
               ELSE Call("config_set_item", "raised", k, None, NoEnvironment,
                         None, None, "none")
    /\ UNCHANGED <<cfg_installed, config, cfg_env>>

\* c = get_config().config; c[k][k2] = v: the caller writes into a mapping
\* nested in the returned one, which is the manager's own nested mapping.
\* self._config.copy() raises AttributeError on a scalar root, c[k] raises
\* KeyError for a missing key and the item assignment raises TypeError on a
\* scalar c[k]; nothing is written then
config_set_nested_item(k, k2, v) ==
    /\ UNCHANGED <<zvars, svars>>
    /\ kres = NoCall
    /\ cfg_installed
    /\ IF config.kind = "dict" /\ k \in DOMAIN config.d /\ config.d[k].kind = "dict"
       THEN LET c == ShallowCopy(config)
                written == DictSet(c.top, k, DictSet(c.top.d[k], k2, v))
            IN  /\ config' = IF k \in c.shared THEN DictSet(config, k, written.d[k]) ELSE config
                /\ kres' = Call("config_set_nested_item", "ok", k \o <<".">> \o k2, None,
                                NoEnvironment, written, None, "none")
       ELSE /\ config' = config
            /\ kres' = Call("config_set_nested_item", "raised", k \o <<".">> \o k2, None,
                            NoEnvironment, None, None, "none")
    /\ UNCHANGED <<cfg_installed, cfg_env>>

\* a call starts once the caller has taken the result of its last call
NextConfig ==
    \/ config_call_return
    \/ kres = NoCall /\ \E env \in EnvironmentNames, file \in Files :
          \E root \in IF file = "loaded" THEN FileRoots ELSE {None} : get_config(env, file, root)
    \/ reset_config
    \/ kres = NoCall /\ \E env \in EnvironmentNames, file \in Files :
          \E root \in IF file = "loaded" THEN FileRoots ELSE {None} : load_env(env, file, root)
    \/ kres = NoCall /\ \E key \in KeyStrings, default \in Defaults, env \in Environments :
          get(key, default, env)
    \/ kres = NoCall /\ \E json_data \in FileRoots, key_path \in KeyStrings, default \in Defaults :
          extract_json_value(json_data, key_path, default)
    \/ kres = NoCall /\ \E k \in TopKeys, v \in ScalarValues : config_set_item(k, v)
    \/ kres = NoCall /\ \E k \in TopKeys, k2 \in InnerKeys, v \in ScalarValues :
          config_set_nested_item(k, k2, v)

\* ------------------------------------------------ infra/core ConfigManager

\* os.getenv(name, default)
GetEnv(env, name, default) == IF env[name] = Unset THEN default ELSE env[name]

\* int(s): the strings that are decimal numbers
ParsesAsInt(x) == x \in {"10", "20", "30"}

\* _load_default_config raises ValueError, before it assigns self._config,
\* when a variable read through int() holds no number
LoadDefaultRaises(env) == ~ParsesAsInt(GetEnv(env, "IMPLICIT_WAIT", "10"))

\* _load_default_config: every default is the environment variable, or the
\* built-in value when the variable is not set; 'headless' is whether the
\* variable, in lower case, is 'true'. The keys no get of the model asks for
\* (the waits, the timeouts, the other URLs, the log level) are left out.
LoadDefaultConfig(env) ==
    Dict((<<"base_url">> :> Scalar(GetEnv(env, "BASE_URL", "http://localhost")))
         @@ (<<"browser">> :> Scalar(GetEnv(env, "BROWSER", "chrome")))
         @@ (<<"headless">> :> Bool(Lower(GetEnv(env, "HEADLESS", "false")) = "true")))

\* dict.update(other)
DictUpdate(value, other) ==
    Dict([k \in DOMAIN value.d \cup DOMAIN other.d |->
             IF k \in DOMAIN other.d THEN other.d[k] ELSE value.d[k]])

\* load_from_file: a missing file, an unsupported suffix and a malformed file
\* raise; so does self._config.update(file_config) when the file holds no mapping
LoadFromFile(cfg, file, root) ==
    IF file \in {"missing", "malformed", "unsupported"} \/ root.kind # "dict"
    THEN [outcome |-> "raised", config |-> cfg]
    ELSE [outcome |-> "ok", config |-> DictUpdate(cfg, root)]

\* ConfigManager.get(key, default): self._config.get(key, default), the key taken whole
CoreGet(cfg, key, default) == IF key \in DOMAIN cfg.d THEN cfg.d[key] ELSE default

InitCoreConfig ==
    /\ core_initialized = FALSE
    /\ core_config = Dict(<<>>)
    /\ core_env = NoCoreEnvironment
    /\ core_file_keys = {}
    /\ core_set_keys = {}

\* ConfigManager(): the singleton; the first construction sets _initialized
\* and _config = {} and loads the defaults from the environment env; when that
\* raises, the instance stays, initialized, with the empty _config
core_ConfigManager(env) ==
    /\ UNCHANGED <<zvars, cfg_installed, config, cfg_env>>
    /\ kres = NoCall
    /\ IF core_initialized
       THEN /\ kres' = Call("ConfigManager", "ok", <<>>, None, NoEnvironment, None, None, "none")
            /\ UNCHANGED svars
       ELSE /\ core_initialized' = TRUE
            /\ IF LoadDefaultRaises(env)
               THEN /\ kres' = Call("ConfigManager", "raised", <<>>, None, NoEnvironment,
                                    None, None, "none")
                    /\ core_config' = Dict(<<>>)
                    /\ UNCHANGED core_env
               ELSE /\ kres' = Call("ConfigManager", "ok", <<>>, None, NoEnvironment,
                                    None, None, "none")
                    /\ core_config' = LoadDefaultConfig(env)
                    /\ core_env' = env
            /\ UNCHANGED <<core_file_keys, core_set_keys>>

\* ConfigManager().load_from_file(file_path)
load_from_file(file, root) ==
    /\ UNCHANGED <<zvars, cfg_installed, config, cfg_env>>
    /\ kres = NoCall
    /\ core_initialized
    /\ LET r == LoadFromFile(core_config, file, root)
       IN  /\ core_config' = r.config
           /\ core_file_keys' = IF r.outcome = "ok" THEN core_file_keys \cup DOMAIN root.d
                                ELSE core_file_keys
           /\ core_set_keys' = IF r.outcome = "ok" THEN core_set_keys \ DOMAIN root.d
                               ELSE core_set_keys
           /\ kres' = Call("load_from_file", r.outcome, <<>>, None, NoEnvironment, None, None, file)
    /\ UNCHANGED <<core_initialized, core_env>>

\* ConfigManager().get(key, default)
core_get(key, default) ==
    /\ UNCHANGED <<zvars, cfg_installed, config, cfg_env>>
    /\ kres = NoCall
    /\ core_initialized
    /\ kres' = Call("core_get", "ok", key, default, NoEnvironment, core_config,
                    CoreGet(core_config, key, default), "none")
    /\ UNCHANGED svars

\* ConfigManager().set(key, value)
core_set(key, value) ==
    /\ UNCHANGED <<zvars, cfg_installed, config, cfg_env>>
    /\ kres = NoCall
    /\ core_initialized
    /\ core_config' = DictSet(core_config, key, value)
    /\ core_set_keys' = core_set_keys \cup {key}
    /\ kres' = Call("core_set", "ok", key, None, NoEnvironment, None, value, "none")
    /\ UNCHANGED <<core_initialized, core_env, core_file_keys>>

\* ConfigManager().update(config): self._config.update(config)
core_update(other) ==
    /\ UNCHANGED <<zvars, cfg_installed, config, cfg_env>>
    /\ kres = NoCall
    /\ core_initialized
    /\ core_config' = DictUpdate(core_config, other)
    /\ core_set_keys' = core_set_keys \cup DOMAIN other.d
    /\ kres' = Call("core_update", "ok", <<>>, None, NoEnvironment, None, other, "none")
    /\ UNCHANGED <<core_initialized, core_env, core_file_keys>>

\* ConfigManager().reset(): the defaults again, from the environment env; when
\* _load_default_config raises, _config is left as it was
core_reset(env) ==
    /\ UNCHANGED <<zvars, cfg_installed, config, cfg_env>>
    /\ kres = NoCall
    /\ core_initialized
    /\ IF LoadDefaultRaises(env)
       THEN /\ kres' = Call("core_reset", "raised", <<>>, None, NoEnvironment, None, None, "none")
            /\ UNCHANGED <<core_config, core_env, core_file_keys, core_set_keys>>
       ELSE /\ kres' = Call("core_reset", "ok", <<>>, None, NoEnvironment, None, None, "none")
            /\ core_config' = LoadDefaultConfig(env)
            /\ core_env' = env
            /\ core_file_keys' = {}
            /\ core_set_keys' = {}
    /\ UNCHANGED core_initialized

NextCoreConfig ==
    \/ config_call_return
    \/ kres = NoCall /\ \E env \in CoreEnvironments : core_ConfigManager(env)
    \/ kres = NoCall /\ \E file \in CoreFiles :
          \E root \in IF file = "loaded" THEN FileRoots ELSE {None} : load_from_file(file, root)
    \/ kres = NoCall /\ \E key \in CoreKeys, default \in Defaults : core_get(key, default)
    \/ kres = NoCall /\ \E value \in {Scalar("s")} : core_set(<<"base_url">>, value)
    \/ kres = NoCall /\ \E other \in CoreUpdates : core_update(other)
    \/ kres = NoCall /\ \E env \in CoreEnvironments : core_reset(env)

\* ---------------------------------------------------------- driver factories

\* truth value of an argument in "browser or ...": None and '' are falsy
Given(x) == x \notin {"none", ""}

Selected(engine) == [outcome |-> "ok", error |-> "none", msg |-> "", engine |-> engine]
Failed(error, msg) == [outcome |-> "raised", error |-> error, msg |-> msg, engine |-> "none"]

\* create_driver with every browser it does not know handed to Chrome
CreateDriverDefaultsToChrome(browser, cfg) ==
    LET resolved == IF cfg # "<no config>" /\ ~Given(browser)
                    THEN IF cfg = "<no key>" THEN "chrome" ELSE cfg
                    ELSE browser
    IN  IF resolved = "none" THEN Failed("AttributeError", "")
        ELSE IF Lower(resolved) = "firefox" THEN Selected("firefox")
        ELSE Selected("chrome")

\* create_driver(browser, config=cfg) of test-automation: the engine it
\* selects, or the error it raises and the value the message names
CreateDriver(browser, cfg) ==
    LET resolved == IF cfg # "<no config>" /\ ~Given(browser)
                    THEN IF cfg = "<no key>" THEN "chrome" ELSE cfg
                    ELSE browser
    IN  IF resolved = "none" THEN Failed("AttributeError", "")
        ELSE IF Lower(resolved) \in {"chrome", "firefox"} THEN Selected(Lower(resolved))
        ELSE Failed("ValueError", Lower(resolved))

\* DriverFactory.create_web_driver(browser), 'browser' configured as cfg
CreateWebDriver(browser, cfg) ==
    LET resolved == Lower(IF Given(browser) THEN browser ELSE cfg)
    IN  IF resolved \in {"chrome", "firefox", "edge", "safari"} THEN Selected(resolved)
        ELSE Failed("ValueError", resolved)

\* DriverFactory.create_mobile_driver(platform), 'mobile_platform' configured as cfg
CreateMobileDriver(platform, cfg) ==
    LET resolved == Lower(IF Given(platform) THEN platform ELSE cfg)
    IN  IF resolved \in {"android", "ios"} THEN Selected(resolved)
        ELSE Failed("ValueError", resolved)

NoFactoryCall == [fn |-> "none", arg |-> "none", cfg |-> "none", outcome |-> "ok",
                  error |-> "none", msg |-> "", engine |-> "none"]

InitFactory ==
    /\ fres = NoFactoryCall
    /\ fmade = 0

\* the end of a factory call that selected r: the engine constructs a native
\* driver and the driver is configured and returned; or the constructor raises
\* and the exception propagates; or the driver is constructed and the
\* configuration that follows (implicitly_wait, set_page_load_timeout,
\* set_window_size(int(width), int(height))) raises: the call raises with one
\* more native driver constructed, which nothing quits
FactoryCall(fn, arg, cfg, r) ==
    IF r.outcome = "ok"
    THEN \/ /\ fmade' = fmade + 1
            /\ fres' = [fn |-> fn, arg |-> arg, cfg |-> cfg, outcome |-> "ok",
                        error |-> "none", msg |-> "", engine |-> r.engine]
         \/ /\ fres' = [fn |-> fn, arg |-> arg, cfg |-> cfg, outcome |-> "raised",
                        error |-> "WebDriverException", msg |-> "", engine |-> r.engine]
            /\ UNCHANGED fmade
         \/ /\ fmade' = fmade + 1
            /\ fres' = [fn |-> fn, arg |-> arg, cfg |-> cfg, outcome |-> "raised",
                        error |-> "configuration", msg |-> "", engine |-> r.engine]
    ELSE /\ fres' = [fn |-> fn, arg |-> arg, cfg |-> cfg, outcome |-> "raised",
                     error |-> r.error, msg |-> r.msg, engine |-> "none"]
         /\ UNCHANGED fmade

\* create_driver(browser=browser, config=cfg)
create_driver(browser, cfg) ==
    /\ UNCHANGED <<mvars, cvars, bvars, kvars, svars, hvars, avars, gvars, wvars>>
    /\ fmade < MaxBuilt
    /\ FactoryCall("create_driver", browser, cfg, CreateDriver(browser, cfg))

\* DriverFactory.create_web_driver(browser)
factory_create_web_driver(browser, cfg) ==
    /\ UNCHANGED <<mvars, cvars, bvars, kvars, svars, hvars, avars, gvars, wvars>>
    /\ fmade < MaxBuilt
    /\ FactoryCall("create_web_driver", browser, cfg, CreateWebDriver(browser, cfg))

\* DriverFactory.create_mobile_driver(platform)
factory_create_mobile_driver(platform, cfg) ==
    /\ UNCHANGED <<mvars, cvars, bvars, kvars, svars, hvars, avars, gvars, wvars>>
    /\ fmade < MaxBuilt
    /\ FactoryCall("create_mobile_driver", platform, cfg, CreateMobileDriver(platform, cfg))

NextFactory ==
    \/ \E browser \in BrowserArgs, cfg \in DriverConfigs : create_driver(browser, cfg)
    \/ \E browser \in BrowserArgs, cfg \in ConfiguredBrowsers : factory_create_web_driver(browser, cfg)
    \/ \E platform \in PlatformArgs, cfg \in ConfiguredPlatforms :
          factory_create_mobile_driver(platform, cfg)

\* ------------------------------------------- test-automation DriverBundle

NoBundleOp == [b |-> 0, op |-> "none", outcome |-> "ok", native |-> FALSE, closedBefore |-> FALSE]

InitHandle ==
    /\ tb_driver = [b \in BundleIds |-> NotMade]
    /\ tb_quits = [b \in BundleIds |-> 0]
    /\ tb_closed = [b \in BundleIds |-> FALSE]
    /\ tb_op = NoBundleOp

\* DriverBundle(driver=drv): the dataclass constructor stores its arguments
DriverBundle(b, drv) ==
    /\ UNCHANGED <<mvars, cvars, bvars, kvars, svars, fvars, avars, gvars, wvars>>
    /\ tb_driver[b] = NotMade
    /\ tb_driver' = [tb_driver EXCEPT ![b] = drv]
    /\ tb_op' = [b |-> b, op |-> "DriverBundle", outcome |-> "ok", native |-> FALSE,
                 closedBefore |-> FALSE]
    /\ UNCHANGED <<tb_quits, tb_closed>>

\* the body of quit(): `if self.driver: self.driver.quit()`; the native quit
\* returns, or raises and the exception propagates
BundleQuit(b, op, raises) ==
    LET native == tb_driver[b] = "WebDriver"
        raised == native /\ raises
    IN  /\ tb_quits' = [tb_quits EXCEPT ![b] = IF native THEN @ + 1 ELSE @]
        /\ tb_closed' = [tb_closed EXCEPT ![b] = @ \/ ~raised]
        /\ tb_op' = [b |-> b, op |-> op, outcome |-> IF raised THEN "raised" ELSE "ok",
                     native |-> native, closedBefore |-> tb_closed[b]]
        /\ UNCHANGED tb_driver

\* DriverBundle.quit()
bundle_quit(b, raises) ==
    /\ UNCHANGED <<mvars, cvars, bvars, kvars, svars, fvars, avars, gvars, wvars>>
    /\ tb_driver[b] # NotMade
    /\ tb_quits[b] < MaxNativeQuits
    /\ BundleQuit(b, "quit", raises)

\* DriverBundle.__enter__(): returns self
bundle_enter(b) ==
    /\ UNCHANGED <<mvars, cvars, bvars, kvars, svars, fvars, avars, gvars, wvars>>
    /\ tb_driver[b] # NotMade
    /\ tb_op' = [b |-> b, op |-> "__enter__", outcome |-> "ok", native |-> FALSE,
                 closedBefore |-> tb_closed[b]]
    /\ UNCHANGED <<tb_driver, tb_quits, tb_closed>>

\* DriverBundle.__exit__(exc_type, exc_val, exc_tb): self.quit()
bundle_exit(b, raises) ==
    /\ UNCHANGED <<mvars, cvars, bvars, kvars, svars, fvars, avars, gvars, wvars>>
    /\ tb_driver[b] # NotMade
    /\ tb_quits[b] < MaxNativeQuits
    /\ BundleQuit(b, "__exit__", raises)

NextHandle ==
    \/ \E b \in BundleIds, drv \in DriverFields : DriverBundle(b, drv)
    \/ \E b \in BundleIds, raises \in BOOLEAN : bundle_quit(b, raises)
    \/ \E b \in BundleIds : bundle_enter(b)
    \/ \E b \in BundleIds, raises \in BOOLEAN : bundle_exit(b, raises)

\* ------------------------------------------------------------------ AuthApi

\* a finished call; before is the token the call found
AuthResult(o, s, out, k, t) ==
    [op |-> o, status |-> s, outcome |-> out, ret |-> [kind |-> k, token |-> t],
     before |-> token]
NoAuthCall ==
    [op |-> "none", status |-> 0, outcome |-> "ok", ret |-> [kind |-> "None", token |-> Absent],
     before |-> Absent]

\* AuthApi(base_url): no token, and a session without an Authorization header
InitAuth ==
    /\ token = Absent
    /\ auth_header = NoHeader
    /\ ares = NoAuthCall

\* `if self.token:` for None, '' and a non-empty string
TokenTruthy(t) == t \notin {Absent, EmptyString}

\* the part login and refresh_token share on a 200 response: data =
\* response.json(); self.token = data.get('token'); the header is updated only
\* for a truthy token. json() raises for a body that is not JSON and .get
\* raises for a list, before anything is assigned.
StoreToken(o, resp, retkind) ==
    IF resp.body.kind = "dict"
    THEN /\ token' = resp.body.token
         /\ auth_header' = IF TokenTruthy(resp.body.token) THEN Bearer(resp.body.token)
                           ELSE auth_header
         /\ ares' = AuthResult(o, 200, "ok", retkind, resp.body.token)
    ELSE /\ ares' = AuthResult(o, 200, "raised",
                               IF resp.body.kind = "invalid" THEN "JSONDecodeError"
                               ELSE "AttributeError", Absent)
         /\ UNCHANGED <<token, auth_header>>

\* a call left by the exception of self.post
PostRaised(o) ==
    /\ ares' = AuthResult(o, 0, "raised", "RequestException", Absent)
    /\ UNCHANGED <<token, auth_header>>

\* AuthApi.login(username, password): returns response.json() on 200, {} otherwise
login(resp) ==
    /\ UNCHANGED <<zvars_auth, kvars, svars>>
    /\ IF resp = RequestFailed THEN PostRaised("login")
       ELSE IF resp.status = 200 THEN StoreToken("login", resp, "body")
       ELSE /\ ares' = AuthResult("login", resp.status, "ok", "{}", Absent)
            /\ UNCHANGED <<token, auth_header>>

\* logout that clears the token and leaves the session header in place
logout_keeps_header(resp) ==
    /\ UNCHANGED <<zvars_auth, kvars, svars>>
    /\ IF resp = RequestFailed THEN PostRaised("logout")
       ELSE IF resp.status = 200
       THEN /\ token' = Absent
            /\ ares' = AuthResult("logout", 200, "ok", "True", Absent)
            /\ UNCHANGED auth_header
       ELSE /\ ares' = AuthResult("logout", resp.status, "ok", "False", Absent)
            /\ UNCHANGED <<token, auth_header>>

\* AuthApi.logout(): on 200 the token and the header are dropped
logout(resp) ==
    /\ UNCHANGED <<zvars_auth, kvars, svars>>
    /\ IF resp = RequestFailed THEN PostRaised("logout")
       ELSE IF resp.status = 200
       THEN /\ token' = Absent
            /\ auth_header' = NoHeader
            /\ ares' = AuthResult("logout", 200, "ok", "True", Absent)
       ELSE /\ ares' = AuthResult("logout", resp.status, "ok", "False", Absent)
            /\ UNCHANGED <<token, auth_header>>

\* AuthApi.refresh_token(): returns self.token on 200, None otherwise
refresh_token(resp) ==
    /\ UNCHANGED <<zvars_auth, kvars, svars>>
    /\ IF resp = RequestFailed THEN PostRaised("refresh_token")
       ELSE IF resp.status = 200 THEN StoreToken("refresh_token", resp, "token")
       ELSE /\ ares' = AuthResult("refresh_token", resp.status, "ok", "None", Absent)
            /\ UNCHANGED <<token, auth_header>>

NextAuth ==
    \/ \E resp \in PostOutcomes : login(resp)
    \/ \E resp \in UnreadOutcomes : logout(resp)
    \/ \E resp \in PostOutcomes : refresh_token(resp)

\* ------------------------------------------- the module-level DriverManager
\* A thread that waits for a lock while it holds none has not started as far
\* as the others can tell: calling reset_driver_manager, start_driver or
\* stop_driver and obtaining the lock it begins with are one step.

InitGlobal ==
    /\ g_manager = NoManager
    /\ g_lock = NoThread
    /\ mgr_made = 0
    /\ mgr_config = [m \in Managers |-> "<not made>"]
    /\ mgr_lock = [m \in Managers |-> NoThread]
    /\ mgr_local = [m \in Managers |-> [t \in Clients |-> "none"]]
    /\ gpc = [t \in Clients |-> "idle"]
    /\ g_calls = 0
    /\ held = [t \in Clients |-> NoManager]

\* DriverManager.__init__: self.config = config or {}
ManagerConfig(cfg) == IF cfg = "none" THEN "<no key>" ELSE cfg

\* a call is made while the number of calls allows it
CallMade ==
    /\ g_calls < MaxCalls
    /\ g_calls' = g_calls + 1

\* get_driver_manager is called: the unlocked test "_driver_manager is None"
get_driver_manager_call(t) ==
    /\ UNCHANGED zvars_global
    /\ gpc[t] = "idle"
    /\ CallMade
    /\ gpc' = [gpc EXCEPT ![t] = IF g_manager = NoManager THEN "gdm_locked" ELSE "gdm_return"]
    /\ UNCHANGED <<g_manager, g_lock, mgr_made, mgr_config, mgr_lock, mgr_local, held>>

\* get_driver_manager enters "with _manager_lock:"
get_driver_manager_acquire(t) ==
    /\ UNCHANGED zvars_global
    /\ gpc[t] = "gdm_locked"
    /\ g_lock = NoThread
    /\ g_lock' = t
    /\ gpc' = [gpc EXCEPT ![t] = "gdm_test"]
    /\ UNCHANGED <<g_calls, g_manager, mgr_made, mgr_config, mgr_lock, mgr_local, held>>

\* the locked part of get_driver_manager without the second test: every
\* thread that saw None constructs
get_driver_manager_locked_unchecked(t, cfg) ==
    /\ UNCHANGED zvars_global
    /\ gpc[t] = "gdm_test"
    /\ mgr_made' = mgr_made + 1
    /\ mgr_config' = [mgr_config EXCEPT ![mgr_made + 1] = ManagerConfig(cfg)]
    /\ g_manager' = mgr_made + 1
    /\ gpc' = [gpc EXCEPT ![t] = "gdm_exit"]
    /\ UNCHANGED <<g_calls, g_lock, mgr_lock, mgr_local, held>>

\* get_driver_manager(config) inside "with _manager_lock:": the second test,
\* and DriverManager(config) if the global is still None
get_driver_manager_locked(t, cfg) ==
    /\ UNCHANGED zvars_global
    /\ gpc[t] = "gdm_test"
    /\ IF g_manager = NoManager
       THEN /\ mgr_made' = mgr_made + 1
            /\ mgr_config' = [mgr_config EXCEPT ![mgr_made + 1] = ManagerConfig(cfg)]
            /\ g_manager' = mgr_made + 1
       ELSE UNCHANGED <<mgr_made, mgr_config, g_manager>>
    /\ gpc' = [gpc EXCEPT ![t] = "gdm_exit"]
    /\ UNCHANGED <<g_calls, g_lock, mgr_lock, mgr_local, held>>

\* get_driver_manager leaves "with _manager_lock:"
get_driver_manager_exit(t) ==
    /\ UNCHANGED zvars_global
    /\ gpc[t] = "gdm_exit"
    /\ g_lock' = NoThread
    /\ gpc' = [gpc EXCEPT ![t] = "gdm_return"]
    /\ UNCHANGED <<g_calls, g_manager, mgr_made, mgr_config, mgr_lock, mgr_local, held>>

\* "return _driver_manager": the global is read again, outside the lock
get_driver_manager_return(t) ==
    /\ UNCHANGED zvars_global
    /\ gpc[t] = "gdm_return"
    /\ gpc' = [gpc EXCEPT ![t] = "idle"]
    /\ held' = [held EXCEPT ![t] = g_manager]
    /\ UNCHANGED <<g_calls, g_manager, g_lock, mgr_made, mgr_config, mgr_lock, mgr_local>>

\* reset_driver_manager is called and enters "with _manager_lock:"
reset_driver_manager_call(t) ==
    /\ UNCHANGED zvars_global
    /\ gpc[t] = "idle"
    /\ CallMade
    /\ g_lock = NoThread
    /\ g_lock' = t
    /\ gpc' = [gpc EXCEPT ![t] = "reset_body"]
    /\ UNCHANGED <<g_manager, mgr_made, mgr_config, mgr_lock, mgr_local, held>>

\* reset_driver_manager inside its with block: with no manager it assigns None
\* and returns; with one it calls stop_driver, which waits for the manager's lock
reset_driver_manager_body(t) ==
    /\ UNCHANGED zvars_global
    /\ gpc[t] = "reset_body"
    /\ IF g_manager = NoManager
       THEN /\ g_lock' = NoThread
            /\ gpc' = [gpc EXCEPT ![t] = "idle"]
            /\ UNCHANGED mgr_lock
       ELSE /\ mgr_lock[g_manager] = NoThread
            /\ mgr_lock' = [mgr_lock EXCEPT ![g_manager] = t]
            /\ gpc' = [gpc EXCEPT ![t] = "reset_stop"]
            /\ UNCHANGED g_lock
    /\ UNCHANGED <<g_calls, g_manager, mgr_made, mgr_config, mgr_local, held>>

\* the body of stop_driver of manager m for thread t, the manager's lock held:
\* the bundle's quit() and the assignment of None, which an exception of the
\* native quit() skips; the with block releases the lock either way
StopDriver(m, t, raises) ==
    /\ mgr_lock' = [mgr_lock EXCEPT ![m] = NoThread]
    /\ mgr_local' = IF mgr_local[m][t] = "none" \/ raises THEN mgr_local
                    ELSE [mgr_local EXCEPT ![m][t] = "none"]

StopRaises(m, t, raises) == mgr_local[m][t] # "none" /\ raises

\* reset_driver_manager with the module lock taken by acquire() and given back
\* by release() after the assignment: an exception of stop_driver ends the
\* call with the module lock held
reset_driver_manager_stop_keeps_lock(t, raises) ==
    /\ UNCHANGED zvars_global
    /\ gpc[t] = "reset_stop"
    /\ StopDriver(g_manager, t, raises)
    /\ gpc' = [gpc EXCEPT ![t] = IF StopRaises(g_manager, t, raises) THEN "idle"
                                 ELSE "reset_assign"]
    /\ UNCHANGED <<g_calls, g_manager, g_lock, mgr_made, mgr_config, held>>

\* reset_driver_manager: _driver_manager.stop_driver() runs for the calling
\* thread and its with block gives back the manager's lock; the assignment
\* comes next, an exception of stop_driver leaves the outer with block
\* without it
reset_driver_manager_stop(t, raises) ==
    /\ UNCHANGED zvars_global
    /\ gpc[t] = "reset_stop"
    /\ StopDriver(g_manager, t, raises)
    /\ gpc' = [gpc EXCEPT ![t] = IF StopRaises(g_manager, t, raises) THEN "reset_exit"
                                 ELSE "reset_assign"]
    /\ UNCHANGED <<g_calls, g_manager, g_lock, mgr_made, mgr_config, held>>

\* reset_driver_manager: _driver_manager = None, _manager_lock still held
reset_driver_manager_assign(t) ==
    /\ UNCHANGED zvars_global
    /\ gpc[t] = "reset_assign"
    /\ g_manager' = NoManager
    /\ gpc' = [gpc EXCEPT ![t] = "reset_exit"]
    /\ UNCHANGED <<g_calls, g_lock, mgr_made, mgr_config, mgr_lock, mgr_local, held>>

\* reset_driver_manager leaves "with _manager_lock:", normally or by the
\* exception of stop_driver
reset_driver_manager_exit(t) ==
    /\ UNCHANGED zvars_global
    /\ gpc[t] = "reset_exit"
    /\ g_lock' = NoThread
    /\ gpc' = [gpc EXCEPT ![t] = "idle"]
    /\ UNCHANGED <<g_calls, g_manager, mgr_made, mgr_config, mgr_lock, mgr_local, held>>

\* start_driver or stop_driver is called on the manager the thread was handed
\* and enters "with self._lock:"
manager_method_call(t, o) ==
    /\ UNCHANGED zvars_global
    /\ gpc[t] = "idle"
    /\ held[t] # NoManager
    /\ CallMade
    /\ mgr_lock[held[t]] = NoThread
    /\ mgr_lock' = [mgr_lock EXCEPT ![held[t]] = t]
    /\ gpc' = [gpc EXCEPT ![t] = IF o = "start" THEN "start_body" ELSE "stop_body"]
    /\ UNCHANGED <<g_manager, g_lock, mgr_made, mgr_config, mgr_local, held>>

\* start_driver(browser) inside its with block: the stored driver, or
\* create_driver with the manager's config; constructs says whether the engine
\* builds the driver or raises
manager_start_driver(t, browser, constructs) ==
    /\ UNCHANGED zvars_global
    /\ gpc[t] = "start_body"
    /\ gpc' = [gpc EXCEPT ![t] = "idle"]
    /\ mgr_lock' = [mgr_lock EXCEPT ![held[t]] = NoThread]
    /\ LET m == held[t]
           r == CreateDriver(IF Given(browser) THEN browser
                             ELSE IF mgr_config[m] = "<no key>" THEN "chrome" ELSE mgr_config[m],
                             mgr_config[m])
       IN  IF mgr_local[m][t] = "none" /\ r.outcome = "ok" /\ constructs
           THEN mgr_local' = [mgr_local EXCEPT ![m][t] = "bundle"]
           ELSE UNCHANGED mgr_local
    /\ UNCHANGED <<g_calls, g_manager, g_lock, mgr_made, mgr_config, held>>

\* stop_driver inside its with block
manager_stop_driver(t, raises) ==
    /\ UNCHANGED zvars_global
    /\ gpc[t] = "stop_body"
    /\ gpc' = [gpc EXCEPT ![t] = "idle"]
    /\ StopDriver(held[t], t, raises)
    /\ UNCHANGED <<g_calls, g_manager, g_lock, mgr_made, mgr_config, held>>

\* the steps of thread t inside a call
GlobalStep(t) ==
    \/ get_driver_manager_acquire(t)
    \/ \E cfg \in ManagerConfigs : get_driver_manager_locked(t, cfg)
    \/ get_driver_manager_exit(t)
    \/ get_driver_manager_return(t)
    \/ reset_driver_manager_body(t)
    \/ \E raises \in BOOLEAN : reset_driver_manager_stop(t, raises)
    \/ reset_driver_manager_assign(t)
    \/ reset_driver_manager_exit(t)
    \/ \E browser \in Browsers, constructs \in BOOLEAN : manager_start_driver(t, browser, constructs)
    \/ \E raises \in BOOLEAN : manager_stop_driver(t, raises)

NextGlobal ==
    \E t \in Clients :
        \/ get_driver_manager_call(t)
        \/ reset_driver_manager_call(t)
        \/ \E o \in {"start", "stop"} : manager_method_call(t, o)
        \/ get_driver_manager_acquire(t)
        \/ \E cfg \in ManagerConfigs : get_driver_manager_locked(t, cfg)
        \/ get_driver_manager_exit(t)
        \/ get_driver_manager_return(t)
        \/ reset_driver_manager_body(t)
        \/ \E raises \in BOOLEAN : reset_driver_manager_stop(t, raises)
        \/ reset_driver_manager_assign(t)
        \/ reset_driver_manager_exit(t)
        \/ \E browser \in Browsers, constructs \in BOOLEAN :
              manager_start_driver(t, browser, constructs)
        \/ \E raises \in BOOLEAN : manager_stop_driver(t, raises)

\* ------------------------------------- DriverManager in a with statement
\* "with manager: body" on the thread-local DriverManager, by each thread

InitWith ==
    /\ wpc = [t \in Threads |-> "out"]
    /\ w_driver = [t \in Threads |-> NoDriver]
    /\ w_exc = [t \in Threads |-> FALSE]

\* DriverManager.__enter__ is called: it calls self.start_driver()
manager_enter(t) ==
    /\ UNCHANGED <<cvars, bvars, kvars, svars, fvars, hvars, avars, gvars>>
    /\ wpc[t] \in {"out", "after"}
    /\ StartDriverCall(t)
    /\ wpc' = [wpc EXCEPT ![t] = "enter"]
    /\ w_driver' = [w_driver EXCEPT ![t] = NoDriver]
    /\ w_exc' = [w_exc EXCEPT ![t] = FALSE]

\* start_driver has returned to __enter__: "return self" and the body begins
\* with the thread's driver; an exception of start_driver leaves the with
\* statement before the body, and __exit__ is not called
manager_entered(t) ==
    /\ UNCHANGED <<mvars, cvars, bvars, kvars, svars, fvars, hvars, avars, gvars>>
    /\ wpc[t] = "enter"
    /\ mpc[t] = "idle"
    /\ IF mret[t].kind = "raised"
       THEN /\ wpc' = [wpc EXCEPT ![t] = "out"]
            /\ UNCHANGED w_driver
       ELSE /\ wpc' = [wpc EXCEPT ![t] = "body"]
            /\ w_driver' = [w_driver EXCEPT ![t] = mret[t].val]
    /\ UNCHANGED w_exc

\* the body ends, normally or by an exception, and DriverManager.__exit__ is
\* called: it calls self.stop_driver()
manager_exit(t, raised) ==
    /\ UNCHANGED <<cvars, bvars, kvars, svars, fvars, hvars, avars, gvars>>
    /\ wpc[t] = "body"
    /\ StopDriverCall(t)
    /\ wpc' = [wpc EXCEPT ![t] = "exit"]
    /\ w_exc' = [w_exc EXCEPT ![t] = raised]
    /\ UNCHANGED w_driver

\* stop_driver has returned to __exit__, or raised through it: the with
\* statement is over
manager_exited(t) ==
    /\ UNCHANGED <<mvars, cvars, bvars, kvars, svars, fvars, hvars, avars, gvars>>
    /\ wpc[t] = "exit"
    /\ mpc[t] = "idle"
    /\ wpc' = [wpc EXCEPT ![t] = "after"]
    /\ UNCHANGED <<w_driver, w_exc>>

\* the threads use the manager in with statements; inside the body and after
\* the statement they call get_driver()
NextWith ==
    \E t \in Threads :
        \/ manager_enter(t)
        \/ manager_lock_acquire(t)
        \/ start_driver_check(t)
        \/ start_driver_create(t, "none")
        \/ manager_entered(t)
        \/ wpc[t] \in {"body", "after"} /\ get_driver(t)
        \/ \E raised \in BOOLEAN : manager_exit(t, raised)
        \/ stop_driver_body(t)
        \/ manager_exited(t)

Init ==
    /\ InitManager /\ InitContext /\ InitBundle
    /\ InitConfig /\ InitCoreConfig /\ InitFactory /\ InitHandle /\ InitAuth
    /\ InitGlobal /\ InitWith

Next == NextManager

Spec == Init /\ [][Next]_vars

SpecContext == Init /\ [][NextContext]_vars

SpecCounter == Init /\ [][NextCounter]_vars

SpecBundle == Init /\ [][NextBundle]_vars

SpecConfig == Init /\ [][NextConfig]_vars

SpecCoreConfig == Init /\ [][NextCoreConfig]_vars

SpecFactory == Init /\ [][NextFactory]_vars

SpecHandle == Init /\ [][NextHandle]_vars

SpecAuth == Init /\ [][NextAuth]_vars

SpecGlobal == Init /\ [][NextGlobal]_vars

SpecWith == Init /\ [][NextWith]_vars

\* every thread inside a call goes on, create_driver and the native quit()
\* return, and a thread that waits for a lock obtains it once the lock stays free
SpecGlobalFair == SpecGlobal /\ \A t \in Clients : WF_vars(GlobalStep(t))

\* ------------------------------------------------------------------ claims

\* position tests used by the properties below
StartRaisedStep(t) == mpc[t] = "start_create" /\ mpc'[t] = "idle" /\ mret'[t].kind = "raised"
StopReturnStep(t) == mpc[t] = "stop_body" /\ mpc'[t] = "idle"
NotStepping(u) == mpc'[u] = mpc[u] /\ mret'[u] = mret[u]

\* C1: single-flight start. In every run of start_driver calls a thread makes
\* without calling stop_driver in between, all of which returned, the calls
\* returned one and the same driver and create_driver was invoked exactly once.
C1_SingleFlight ==
    \A t \in Threads :
        (runReturned[t] # {} /\ ~runRaised[t]) =>
            /\ Cardinality(runReturned[t]) = 1
            /\ runFactory[t] = 1

\* C2: stop is total. A stop_driver that has returned control to its caller did
\* not propagate an exception of the native quit() and left no driver stored,
\* so that get_driver gives None and the next start_driver constructs.
C2_StopIsTotal ==
    \A t \in Threads :
        (mpc[t] = "idle" /\ mret[t].op = "stop_driver") =>
            /\ mret[t].kind # "raised"
            /\ ~HasBundle(t)

\* C6: execution-unit isolation. get_driver and start_driver hand a thread only
\* drivers that its own start_driver built, quit() is only ever invoked on a
\* driver by the thread that built it, and the stored driver of a thread never
\* changes in a step of another thread.
C6_Isolation ==
    /\ [](\A t \in Threads : mret[t].kind = "driver" => owner[mret[t].val] = t)
    /\ [](\A t \in Threads : HasBundle(t) => owner[local[Slot(t)]] = t)
    /\ [](~foreignQuit)
    /\ [][\A u \in Threads : NotStepping(u) => local'[Slot(u)] = local[Slot(u)]]_vars

\* C6 witness: thread a reads its own live driver while another thread b has
\* built, quit and cleared a driver of its own.
C6_Witness ==
    \E a, b \in Threads :
        /\ a # b
        /\ mret[a].op = "get_driver" /\ mret[a].kind = "driver" /\ HasBundle(a)
        /\ mret[b].op = "stop_driver" /\ mret[b].kind = "none" /\ ~HasBundle(b)
        /\ \E d \in Drivers : owner[d] = b /\ quits[d] > 0

\* C8: stop then get gives None, and stop on an absent driver is a no-op. A
\* get_driver that follows a stop_driver returns None; a stop_driver that finds
\* no driver raises nothing, invokes no quit() and changes nothing; and a
\* stop_driver that directly follows a stop_driver is such a no-op.
C8_StopIdempotent ==
    /\ [](\A t \in Threads :
            (mret[t].op = "get_driver" /\ afterStop[t]) => mret[t].kind = "none")
    /\ [][\A t \in Threads :
            (StopReturnStep(t) /\ (~HasBundle(t) \/ afterStop[t])) =>
                /\ mret'[t].kind = "none"
                /\ UNCHANGED <<local, quits, foreignQuit, calls, built>>]_vars

\* C9: a failing factory. When create_driver raises inside start_driver the
\* call ends with the exception, is handed no driver, stores nothing, and releases the
\* manager lock; while the failure is the thread's last outcome get_driver has
\* nothing to return; and a start_driver that finds no stored driver goes on
\* to invoke the factory.
C9_FactoryFailure ==
    /\ [][\A t \in Threads :
            StartRaisedStep(t) =>
                /\ local'[Slot(t)] = NoDriver
                /\ built' = built
                /\ mlock' = NoThread]_vars
    /\ [](\A t \in Threads :
            (mpc[t] = "idle" /\ mret[t].op = "start_driver" /\ mret[t].kind = "raised") =>
                ~HasBundle(t) /\ mlock # t)
    /\ [][\A t \in Threads :
            (mpc[t] = "start_check" /\ mpc'[t] # "start_check" /\ ~HasBundle(t)) =>
                mpc'[t] = "start_create"]_vars

\* C9 witness: a thread whose start_driver raised is again about to invoke
\* the factory, holding the lock it re-acquired.
C9_Witness ==
    \E t \in Threads : mpc[t] = "start_create" /\ runRaised[t] /\ mlock = t

\* thread t is inside method o, which called another method of the context
\* that waits for the lock t itself holds: neither call can ever return
SelfBlockedIn(t, o) ==
    /\ Len(cstack[t]) = 2
    /\ cstack[t][1].op = o
    /\ Top(t).pc = "acq"
    /\ ctxLock = t

\* the step in which thread t returns from an outermost call of method o
CtxReturnStep(t, o) == Len(cstack[t]) = 1 /\ Top(t).op = o /\ cstack'[t] = <<>>

\* C3: the round trip over two tests. set stores the value and a get of the
\* key returns it; end_test, called for a running test, returns, having
\* recorded the non-negative elapsed time under 'test_duration' and cleared
\* the name and the start time; start_test empties the data, so that get
\* returns the default, and keeps the metadata.
C3_RoundTrip ==
    /\ [][\A t \in Callers : CtxReturnStep(t, "set") => data'[Top(t).key] = Top(t).val]_vars
    /\ [][\A t \in Callers : CtxReturnStep(t, "get") =>
            cret'[t] = IF data[Top(t).key] = Absent THEN Top(t).val ELSE data[Top(t).key]]_vars
    /\ [](\A t \in Callers : ~SelfBlockedIn(t, "end_test"))
    /\ [][\A t \in Callers : CtxReturnStep(t, "end_test") =>
            /\ test_name' = "None" /\ test_start_time' = Absent
            /\ test_start_time # Absent =>
                 /\ metadata'["test_duration"] + test_start_time \in ClockReadings
                 /\ metadata'["test_duration"] >= 0]_vars
    /\ [][\A t \in Callers : CtxReturnStep(t, "start_test") =>
            /\ \A k \in Keys : data'[k] = Absent
            /\ metadata' = metadata]_vars

\* C4: no lost update. Once every incrementing thread has finished its get and
\* its set, the counter equals the number of threads.
C4_NoLostUpdate ==
    (\A t \in Incrementers : ipc[t] = "set" /\ cstack[t] = <<>>) => data["k"] = NumIncrementers

\* C10: get_test_duration returns, and what it returns is the live elapsed
\* time while a test is running and the value stored under 'test_duration'
\* (None if there is none) otherwise.
C10_TestDuration ==
    /\ [](\A t \in Callers : ~SelfBlockedIn(t, "get_test_duration"))
    /\ [][\A t \in Callers : CtxReturnStep(t, "get_test_duration") =>
            IF test_start_time # Absent
            THEN cret'[t] + test_start_time \in ClockReadings
            ELSE cret'[t] = metadata["test_duration"]]_vars

\* C11: start_test records the name and the start time and empties the
\* test-scoped data, and every metadata entry keeps its value.
C11_StartTestFrame ==
    [][\A t \in Callers : CtxReturnStep(t, "start_test") =>
            /\ test_name' = Top(t).key
            /\ test_start_time' \in ClockReadings
            /\ \A k \in Keys : data'[k] = Absent
            /\ metadata' = metadata]_vars

\* C11 witness: start_test has just run on a context that held data and a
\* recorded 'test_duration'; the context now holds the new name, a start time,
\* no data, and still the recorded duration.
C11_Witness ==
    /\ lastStart
    /\ metadata["test_duration"] # Absent
    /\ test_name # "None" /\ test_start_time # Absent
    /\ \A k \in Keys : data[k] = Absent

\* the live handles of kind k: constructed, and no quit()/close() invoked yet
LiveHandles(k) == {h \in Handles : hkind[h] = k /\ hlive[h]}

\* C5: at most one live handle per backend kind at any time.
C5_OneLiveHandlePerKind == \A k \in Kinds : Cardinality(LiveHandles(k)) <= 1

\* C7: quit_all goes on past failures. After quit_drivers or reset the close
\* of every handle that was set has been attempted, whichever of them raised,
\* no exception reached the caller, and the web, mobile and API slots are empty.
C7_QuitAllContinues ==
    bop.op \in {"quit_drivers", "reset"} =>
        /\ bop.outcome = "ok"
        /\ lastQuit.attempted = lastQuit.pre
        /\ SlotHandles(bundle) = {}
        /\ \A h \in lastQuit.pre : ~hlive[h]

\* C7 witness: quit_drivers has run on a bundle with all three slots set, and
\* the first close, the web driver's quit(), raised.
C7_Witness ==
    /\ bop.op = "quit_drivers"
    /\ Cardinality(lastQuit.pre) = 3
    /\ \E h \in lastQuit.failed : hkind[h] = "web"

\* every segment of the path is a key of the mapping reached before it
RECURSIVE Present(_, _)
Present(value, segs) ==
    \/ segs = <<>>
    \/ /\ value.kind = "dict"
       /\ Head(segs) \in DOMAIN value.d
       /\ Present(value.d[Head(segs)], Tail(segs))

\* the value stored at a path that is present
RECURSIVE StoredAt(_, _)
StoredAt(value, segs) ==
    IF segs = <<>> THEN value ELSE StoredAt(value.d[Head(segs)], Tail(segs))

\* the call asks for a key whose environment variable is set to a non-empty value
OverriddenByEnv(call) ==
    \/ call.key = <<"base_url">> /\ call.env["BASE_URL"] \notin {Unset, ""}
    \/ call.key = <<"headless">> /\ call.env["BROWSER_HEADLESS"] \notin {Unset, ""}

\* C12: the environment beats the file. With BASE_URL set to a non-empty value
\* get('base_url', default) returns that value, whatever the loaded file holds
\* and whatever the default; with BROWSER_HEADLESS set, get('headless', default)
\* returns the truth value the variable spells.
C12_EnvOverridesFile ==
    kres.op = "get" =>
        /\ (kres.key = <<"base_url">> /\ kres.env["BASE_URL"] \notin {Unset, ""}) =>
              kres.outcome = "ok" /\ kres.val = Scalar(kres.env["BASE_URL"])
        /\ (kres.key = <<"headless">> /\ kres.env["BROWSER_HEADLESS"] \notin {Unset, ""}) =>
              /\ kres.outcome = "ok"
              /\ kres.val = Bool(kres.env["BROWSER_HEADLESS"] \in
                                   {"true", "True", "TRUE", "1", "yes", "Yes", "YES"})

\* C12 witness: get('base_url', 'd') with BASE_URL=e on a configuration whose
\* file sets base_url has returned e.
C12_Witness ==
    /\ kres.op = "get" /\ kres.key = <<"base_url">>
    /\ kres.env["BASE_URL"] = "e"
    /\ <<"base_url">> \in DOMAIN config.d
    /\ kres.default = Scalar("d")
    /\ kres.val = Scalar("e")

\* C13: environment over file over default in the infra/core ConfigManager.
\* After load_from_file, get of a key that the environment sets and the loaded
\* file sets too gives the environment's value (set() aside, which overrides both).
C13_EnvOverFileOverDefault ==
    (kres.op = "core_get" /\ kres.key = <<"base_url">>
        /\ core_env["BASE_URL"] # Unset
        /\ kres.key \in core_file_keys
        /\ kres.key \notin core_set_keys) =>
            kres.val = Scalar(core_env["BASE_URL"])

\* C14: dotted lookup is exact. Where no environment override applies, get
\* returns exactly the value stored at a path all of whose segments are
\* present, null and falsy values included, and the default for a path with
\* a missing segment.
C14_DottedLookupExact ==
    (kres.op = "get" /\ ~OverriddenByEnv(kres)) =>
        kres.val = IF Present(kres.data, Split(kres.key))
                   THEN StoredAt(kres.data, Split(kres.key))
                   ELSE kres.default

\* C15: dotted lookup is total. get and extract_json_value raise nothing, and
\* give the default when a segment is missing or a value that is not a
\* mapping is met before the last segment.
C15_DottedLookupTotal ==
    kres.op \in {"get", "extract_json_value"} =>
        /\ kres.outcome = "ok"
        /\ (~Present(kres.data, Split(kres.key)) /\ ~OverriddenByEnv(kres)) =>
              kres.val = kres.default

\* C15 witness: extract_json_value asked for "a.a" in a mapping whose "a" is a
\* scalar and returned the default.
C15_Witness ==
    /\ kres.op = "extract_json_value"
    /\ kres.key = <<"a", ".", "a">>
    /\ kres.data.kind = "dict"
    /\ <<"a">> \in DOMAIN kres.data.d
    /\ kres.data.d[<<"a">>] = Scalar("v")
    /\ kres.default = Scalar("d")
    /\ kres.outcome = "ok" /\ kres.val = Scalar("d")

\* C16: the mapping the config property returns is a defensive copy. Whatever
\* the caller writes into it, at top level or inside a nested mapping, every
\* get on the manager gives afterwards what it gave before.
C16_DefensiveCopy ==
    [][(kres = NoCall /\ kres'.op \in {"config_set_item", "config_set_nested_item"}) =>
          \A key \in KeyStrings, default \in Defaults :
              Get(NoEnvironment, config', key, default) = Get(NoEnvironment, config, key, default)]_vars

\* C17: a failing load surfaces. load_env raises for a missing or malformed
\* file and leaves the configuration and the environment name as they were;
\* a get_config whose first construction fails raises and installs no manager.
C17_LoadFailureSurfaces ==
    /\ [][(kres = NoCall /\ kres'.op = "load_env" /\ kres'.file \in {"missing", "malformed"}) =>
            /\ kres'.outcome = "raised"
            /\ config' = config /\ cfg_env' = cfg_env /\ cfg_installed' = cfg_installed]_vars
    /\ [][(kres = NoCall /\ kres'.op = "get_config" /\ kres'.file \in {"missing", "malformed"}) =>
            /\ kres'.outcome = "raised"
            /\ ~cfg_installed']_vars

\* C17 witness: load_env has raised on a malformed file while the manager
\* keeps the non-empty configuration of environment qa it had loaded.
C17_Witness ==
    /\ kres.op = "load_env" /\ kres.file = "malformed" /\ kres.outcome = "raised"
    /\ cfg_installed
    /\ cfg_env = "qa"
    /\ config # Dict(<<>>)

\* C18: an unsupported browser or platform is never silently defaulted. A
\* factory call whose browser or platform argument is given and, case aside,
\* outside the supported set raises ValueError with a message that names the
\* value, and constructs no native driver.
C18_UnsupportedRaises ==
    [][(fres' # fres /\ fres'.fn # "none" /\ Given(fres'.arg)
          /\ Lower(fres'.arg) \notin
               (CASE fres'.fn = "create_driver" -> {"chrome", "firefox"}
                  [] fres'.fn = "create_web_driver" -> {"chrome", "firefox", "edge", "safari"}
                  [] OTHER -> {"android", "ios"})) =>
            /\ fres'.outcome = "raised"
            /\ fres'.error = "ValueError"
            /\ fres'.msg = Lower(fres'.arg)
            /\ fmade' = fmade]_vars

\* C18 witness: with one driver constructed, create_web_driver("opera") on a
\* manager configured for chrome has raised ValueError naming opera.
C18_Witness ==
    /\ fres.fn = "create_web_driver" /\ fres.arg = "opera" /\ fres.cfg = "chrome"
    /\ fres.outcome = "raised" /\ fres.error = "ValueError" /\ fres.msg = "opera"
    /\ fmade = 1

\* C19: take_screenshot never raises. It returns None when neither a web nor
\* a mobile driver is set and when creating the directory or saving the image
\* fails, the saved path otherwise, and it uses the web driver when both a web
\* and a mobile driver are set.
C19_ScreenshotNeverRaises ==
    bop.op = "take_screenshot" =>
        /\ bop.outcome \in {"None", "path"}
        /\ (~has_bundle \/ (bundle.web = NoHandle /\ bundle.mobile = NoHandle)) =>
              bop.outcome = "None"
        /\ shot.saving \in {"mkdir raises", "save raises", "save returns False"} =>
              bop.outcome = "None"
        /\ shot.saving = "saved" => bop.outcome = "path"
        /\ (has_bundle /\ bundle.web # NoHandle /\ bundle.mobile # NoHandle) =>
              shot.used = "web"

\* C20: closed is terminal for a DriverBundle. Once quit() or __exit__ of a
\* bundle has returned, every further operation on it, a second quit() or
\* __exit__ included, fails with a use-after-close error and does not invoke
\* the native driver again.
C20_ClosedIsTerminal ==
    (tb_op.op \in {"quit", "__exit__", "__enter__"} /\ tb_op.closedBefore) =>
        /\ tb_op.outcome = "UseAfterCloseError"
        /\ ~tb_op.native

\* C21: get_driver never constructs. A get_driver call invokes no factory and
\* changes nothing of the manager (lock, stored drivers, drivers built, native
\* quits); it returns the calling thread's stored driver, or None when the
\* thread has none, whatever the other threads are in the middle of.
C21_GetNeverConstructs ==
    /\ [][\A t \in Threads :
            (mret'[t].op = "get_driver" /\ mpc[t] = "idle" /\ ~NotStepping(t)) =>
                /\ UNCHANGED <<mlock, local, mpc, calls, built, quits, owner>>
                /\ mret'[t] = IF HasBundle(t)
                                THEN Result("get_driver", "driver", local[Slot(t)])
                                ELSE Result("get_driver", "none", NoDriver)]_vars
    /\ [](\A t \in Threads :
            (mret[t].op = "get_driver" /\ mret[t].kind = "none") => ~HasBundle(t))

\* C21 witness: a thread got None from get_driver after a driver was built,
\* while another thread holds the manager lock and is about to construct.
C21_Witness ==
    \E a, b \in Threads :
        /\ a # b
        /\ mret[a].op = "get_driver" /\ mret[a].kind = "none"
        /\ mlock = b /\ mpc[b] = "start_create"
        /\ built > 0

\* C22: logout clears the token. When the logout request returns status 200,
\* logout returns True, the token becomes None and the session's Authorization
\* header is removed; on any other status it returns False and leaves the
\* token and the header as they were.
C22_LogoutClearsToken ==
    [][(ares'.op = "logout" /\ ares'.outcome = "ok") =>
          IF ares'.status = 200
          THEN ares'.ret.kind = "True" /\ token' = Absent /\ auth_header' = NoHeader
          ELSE ares'.ret.kind = "False" /\ UNCHANGED <<token, auth_header>>]_vars

\* C22 witness: a logout answered with 200 found a token stored; the token and
\* the header are gone.
C22_Witness ==
    /\ ares.op = "logout" /\ ares.status = 200 /\ ares.ret.kind = "True"
    /\ ares.before \in TokenStrings
    /\ token = Absent /\ auth_header = NoHeader

\* C29: the token and the session header agree. After any sequence of login,
\* logout and refresh_token calls, the session carries 'Authorization: Bearer t'
\* exactly when the token is t and t is not None.
C29_TokenHeaderConsistent ==
    \A t \in TokenValues : (auth_header = Bearer(t)) <=> (token = t /\ t # Absent)

\* C23: every TestContext operation returns with the lock released. No thread
\* inside an operation waits for the non-reentrant lock while it holds that
\* lock itself, a wait that can never end and that blocks every other caller
\* of set, get, start_test, end_test, get_test_duration and clear for good.
C23_NoSelfDeadlock ==
    \A t \in Callers : ~(cstack[t] # <<>> /\ Top(t).pc = "acq" /\ ctxLock = t)

\* C28: after quit_drivers / quit_all the bundle holds nothing. web, mobile,
\* api and wait are all None, whichever of the web driver, the mobile driver
\* and the API session were set before and in whatever order.
C28_QuitAllLeavesNothing ==
    (bop.op = "quit_drivers" /\ has_bundle) => bundle = EmptyBundle

\* C24: get_driver_manager never returns None. Whatever get_driver_manager and
\* reset_driver_manager calls of other threads run in between, the value a
\* get_driver_manager call returns is a DriverManager instance.
C24_NeverReturnsNone ==
    [][\A t \in Clients :
          (gpc[t] = "gdm_return" /\ gpc'[t] = "idle") => held'[t] # NoManager]_vars

\* C25: get_driver_manager is a singleton accessor. A DriverManager is
\* constructed only while none is installed, so concurrent first calls
\* construct exactly one; the installed instance is replaced by nothing but the
\* None of reset_driver_manager; a call that returns while an instance is
\* installed returns that instance; and the config of an instance is the one
\* of the call that constructed it, the config of later calls being ignored.
C25_Singleton ==
    /\ [][mgr_made' # mgr_made =>
            /\ g_manager = NoManager
            /\ mgr_made' = mgr_made + 1
            /\ g_manager' = mgr_made']_vars
    /\ [][(g_manager # NoManager /\ g_manager' # g_manager) =>
            /\ g_manager' = NoManager
            /\ \E t \in Clients : gpc[t] = "reset_assign" /\ gpc'[t] = "reset_exit"]_vars
    /\ [][\A t \in Clients :
            (gpc[t] = "gdm_return" /\ gpc'[t] = "idle" /\ g_manager # NoManager) =>
                held'[t] = g_manager]_vars
    /\ [][\A m \in Managers : m <= mgr_made => mgr_config'[m] = mgr_config[m]]_vars

\* C25 witness: two first calls run concurrently. One thread passed the
\* unlocked test while no manager was installed and waits for the locked part;
\* the other has constructed the one manager there is, with its own config,
\* and was handed it. The two calls are the only ones made: no reset was called.
C25_Witness ==
    \E a, b \in Clients :
        /\ a # b
        /\ g_calls = 2 /\ mgr_made = 1 /\ g_manager = 1
        /\ gpc[a] = "gdm_locked" /\ gpc[b] = "idle" /\ held[b] = 1
        /\ mgr_config[1] = "firefox"

\* C26: reset_driver_manager quits every driver of the previous manager. When
\* reset_driver_manager, its stop_driver having raised nothing, drops the
\* installed manager, after which it only gives back _manager_lock and
\* returns, no thread has a driver left stored, unquit, in that manager.
C26_ResetQuitsAll ==
    [][\A t \in Clients :
          (gpc[t] = "reset_assign" /\ gpc'[t] = "reset_exit") =>
              \A u \in Clients : mgr_local'[g_manager][u] = "none"]_vars

\* locks thread t holds
HoldsModuleLock(t) == g_lock = t
HoldsManagerLock(t) == \E m \in Managers : mgr_lock[m] = t

\* no thread is inside a call and no lock is held
Quiescent ==
    /\ \A t \in Clients : gpc[t] = "idle"
    /\ g_lock = NoThread
    /\ \A m \in Managers : mgr_lock[m] = NoThread

\* C27: no deadlock between the module lock and the manager locks. A thread
\* that waits for _manager_lock holds no lock, and one that waits for a
\* manager's lock holds at most _manager_lock, so that the two are only ever
\* taken in the order _manager_lock, DriverManager._lock; a thread that holds a
\* manager's lock waits for nothing; every call gives back the locks it took,
\* also when the native quit() or create_driver raised; and, every thread
\* inside a call going on, every one of the calls made returns and every lock
\* taken is given back: the calls made being finitely many, the threads end
\* up outside any call with both kinds of lock free.
C27_NoDeadlock ==
    /\ [](\A t \in Clients :
            /\ gpc[t] \in {"idle", "gdm_locked", "gdm_return"} =>
                   ~HoldsModuleLock(t) /\ ~HoldsManagerLock(t)
            /\ gpc[t] = "reset_body" => HoldsModuleLock(t) /\ ~HoldsManagerLock(t)
            /\ gpc[t] = "reset_stop" => HoldsModuleLock(t) /\ mgr_lock[g_manager] = t
            /\ gpc[t] \in {"gdm_test", "gdm_exit", "reset_assign", "reset_exit"} =>
                   HoldsModuleLock(t) /\ ~HoldsManagerLock(t)
            /\ gpc[t] \in {"start_body", "stop_body"} =>
                   ~HoldsModuleLock(t) /\ mgr_lock[held[t]] = t)
    /\ [][\A t \in Clients :
            (~HoldsModuleLock(t) /\ HoldsModuleLock(t)') => ~HoldsManagerLock(t)]_vars
    /\ <>[]Quiescent

\* C27 witness: the two locks are contended. A thread inside reset_driver_manager
\* holds _manager_lock and waits for the lock of the installed manager, which a
\* thread inside start_driver holds.
C27_Witness ==
    \E a, b \in Clients :
        /\ gpc[a] = "reset_body" /\ g_lock = a
        /\ g_manager # NoManager /\ mgr_lock[g_manager] = b
        /\ gpc[b] = "start_body"

\* C30: the with statement starts and stops the thread's driver. After the
\* with block has been left, normally or by an exception of its body, the
\* thread has no driver stored, so that get_driver() returns None, and the
\* native quit() of the driver it had in the block was invoked exactly once.
C30_WithStopsDriver ==
    \A t \in Threads :
        wpc[t] = "after" => ~HasBundle(t) /\ quits[w_driver[t]] = 1

====
